---- MODULE Spec2Model ----
(***************************************************************************)
(* Model of the note synchronisation of tt-cli (syncNotes and the helpers  *)
(* it calls).  Text is modelled by what the code does with it: a string is *)
(* a tuple of one-character strings, a text is the tuple of its lines      *)
(* (what split('\n') returns), a file is its frontmatter block plus the    *)
(* lines after the closing delimiter.                                      *)
(***************************************************************************)
EXTENDS Naturals, Integers, Sequences, FiniteSets, TLC

\* ------------------------------------------------------------------ bounds

\* How many local files the initial notes directory holds at most.
MaxLocalFiles ==
    2

\* How many out-of-band edits the human makes while the run waits at a prompt.
MaxEdits ==
    1

\* How often generateNoteFilename retries with a fresh random suffix.
MaxRandomRetries ==
    2

\* ------------------------------------------------------------------ text

Range(s) ==
    {s[i] : i \in DOMAIN s}

\* String.prototype.toLowerCase on one character.
LowerChar(c) ==
    CASE c = "A" -> "a"
      [] c = "B" -> "b"
      [] c = "C" -> "c"
      [] c = "D" -> "d"
      [] c = "E" -> "e"
      [] c = "F" -> "f"
      [] c = "G" -> "g"
      [] c = "H" -> "h"
      [] c = "I" -> "i"
      [] c = "J" -> "j"
      [] c = "K" -> "k"
      [] c = "L" -> "l"
      [] c = "M" -> "m"
      [] c = "N" -> "n"
      [] c = "O" -> "o"
      [] c = "P" -> "p"
      [] c = "Q" -> "q"
      [] c = "R" -> "r"
      [] c = "S" -> "s"
      [] c = "T" -> "t"
      [] c = "U" -> "u"
      [] c = "V" -> "v"
      [] c = "W" -> "w"
      [] c = "X" -> "x"
      [] c = "Y" -> "y"
      [] c = "Z" -> "z"
      [] OTHER -> c

ToLowerCase(s) ==
    [i \in DOMAIN s |-> LowerChar(s[i])]

\* The character class [a-z0-9_.\-] of generateNoteFilename.
SafeChars ==
    {"a", "b", "c", "d", "e", "f", "g", "h", "i", "j", "k", "l", "m", "n", "o",
     "p", "q", "r", "s", "t", "u", "v", "w", "x", "y", "z", "0", "1", "2", "3",
     "4", "5", "6", "7", "8", "9", "_", ".", "-"}

\* .replace(/[^a-z0-9_.\-]+/g, '-').replace(/-+/g, '-'): every run of
\* characters outside the class, and then every run of hyphens, is one hyphen.
RECURSIVE CollapseHyphens(_)
CollapseHyphens(s) ==
    IF Len(s) <= 1 THEN s
    ELSE IF s[1] = "-" /\ s[2] = "-" THEN CollapseHyphens(Tail(s))
    ELSE <<s[1]>> \o CollapseHyphens(Tail(s))

ReplaceUnsafe(s) ==
    CollapseHyphens([i \in DOMAIN s |-> IF s[i] \in SafeChars THEN s[i] ELSE "-"])

\* .replace(/^-+|-+$/g, '')
RECURSIVE TrimHyphens(_)
TrimHyphens(s) ==
    IF s = <<>> THEN s
    ELSE IF s[1] = "-" THEN TrimHyphens(Tail(s))
    ELSE IF s[Len(s)] = "-" THEN TrimHyphens(SubSeq(s, 1, Len(s) - 1))
    ELSE s

SafeTitle(title) ==
    TrimHyphens(ReplaceUnsafe(ToLowerCase(title)))

MdExt ==
    <<".", "m", "d">>

\* String.prototype.trim on one line (blanks are the only white space used).
RECURSIVE Trim(_)
Trim(s) ==
    IF s = <<>> THEN s
    ELSE IF s[1] = " " THEN Trim(Tail(s))
    ELSE IF s[Len(s)] = " " THEN Trim(SubSeq(s, 1, Len(s) - 1))
    ELSE s

Delim ==
    <<"-", "-", "-">>

\* lines.join('\n') seen again as lines: the empty list joins to "", one empty line.
JoinLines(lines) ==
    IF lines = <<>> THEN << <<>> >> ELSE lines

\* (C26 mutant: without closing delimiter the block runs to the last line.)
FmEndIndexOrEnd(lines) ==
    IF lines = <<>> \/ Trim(lines[1]) # Delim THEN 0
    ELSE LET closing == {i \in 2..Len(lines) : Trim(lines[i]) = Delim}
         IN  IF closing = {} THEN Len(lines)
             ELSE CHOOSE i \in closing : \A j \in closing : i <= j

\* The index of the first line from the second on that trims to the delimiter
\* (fmEndIndex, 1-based), 0 when there is none or the first line is no delimiter.
FmEndIndex(lines) ==
    IF lines = <<>> \/ Trim(lines[1]) # Delim THEN 0
    ELSE LET closing == {i \in 2..Len(lines) : Trim(lines[i]) = Delim}
         IN  IF closing = {} THEN 0
             ELSE CHOOSE i \in closing : \A j \in closing : i <= j

\* removeFrontmatterFromMarkdownFile on a text given as its lines.
RemoveFrontmatterLines(lines) ==
    IF FmEndIndex(lines) = 0 THEN lines
    ELSE JoinLines(SubSeq(lines, FmEndIndex(lines) + 1, Len(lines)))

\* path.split('/').pop()?.split('.').shift(): the file name up to its first dot.
RECURSIVE Stem(_)
Stem(name) ==
    IF name = <<>> \/ name[1] = "." THEN <<>>
    ELSE <<name[1]>> \o Stem(Tail(name))

\* (C29 mutant: the ending is tested as written, not lower-cased.)
EndsWithMdCaseSensitive(name) ==
    /\ Len(name) >= 3
    /\ SubSeq(name, Len(name) - 2, Len(name)) = <<".", "m", "d">>

\* f.toLowerCase().endsWith('.md')
EndsWithMd(name) ==
    /\ Len(name) >= 3
    /\ ToLowerCase(SubSeq(name, Len(name) - 2, Len(name))) = MdExt

\* ------------------------------------------------------------------ notes

\* null, for the tags of a note whose frontmatter has none.
NullTags ==
    <<"null">>

\* The result null of the extractors.
NullNote ==
    [isNull |-> TRUE]

EmptyFm ==
    [k \in {} |-> ""]

Has(f, k) ==
    k \in DOMAIN f

\* The file's modification time, as stat(path).mtime.toISOString() gives it.
MTime(path) ==
    "mtime"

\* A file of the notes directory.  kind = "map": the text opens with a delimited
\* block that yaml.load turns into a mapping (fm); kind = "other": a delimited
\* block that is no mapping or does not parse; kind = "none": no delimited
\* block.  rest is the text after the closing delimiter, all of it for "none".
MkFile(kind, fm, rest) ==
    [kind |-> kind, fm |-> fm, rest |-> rest]

extractFrontmatterFromMarkdownFile(file) ==
    IF file.kind = "map" THEN file.fm ELSE EmptyFm

HasFrontmatter(file) ==
    file.kind = "map"

removeFrontmatterFromMarkdownFile(file) ==
    file.rest

\* (C19 mutant: only an absent key counts as missing, an empty value passes.)
MissingStrAbsentOnly(fm, k) ==
    ~Has(fm, k)

\* frontmatter?.k ?? null followed by the test !k, for a string-valued key.
MissingStr(fm, k) ==
    ~Has(fm, k) \/ fm[k] = ""

\* The same for the title, a text.
MissingText(fm, k) ==
    ~Has(fm, k) \/ fm[k] = <<>>

ExtraDataKeys(fm) ==
    DOMAIN fm \ {"id", "createdAt", "updatedAt", "tags", "published"}

\* (C20 mutant: a missing title is replaced by a default instead of ending
\* the extraction.)
extractNoteTitleDefaulted(file) ==
    LET fm == extractFrontmatterFromMarkdownFile(file)
    IN  IF ~HasFrontmatter(file) THEN NullNote
        ELSE IF MissingStr(fm, "id") THEN NullNote
        ELSE IF MissingStr(fm, "createdAt") THEN NullNote
        ELSE IF MissingStr(fm, "updatedAt") THEN NullNote
        ELSE [k \in ExtraDataKeys(fm) |-> fm[k]] @@
             [id |-> fm.id,
              title |-> <<"u">>,
              content |-> removeFrontmatterFromMarkdownFile(file),
              createdAt |-> fm.createdAt,
              updatedAt |-> fm.updatedAt,
              tags |-> IF Has(fm, "tags") THEN fm.tags ELSE NullTags,
              date |-> fm.createdAt,
              published |-> IF Has(fm, "published") THEN fm.published ELSE FALSE]

extractNoteFromMarkdownFile(file) ==
    LET fm == extractFrontmatterFromMarkdownFile(file)
    IN  IF ~HasFrontmatter(file) THEN NullNote
        ELSE IF MissingStr(fm, "id") THEN NullNote
        ELSE IF MissingStr(fm, "createdAt") THEN NullNote
        ELSE IF MissingStr(fm, "updatedAt") THEN NullNote
        ELSE IF MissingText(fm, "title") THEN NullNote
        ELSE [k \in ExtraDataKeys(fm) |-> fm[k]] @@
             [id |-> fm.id,
              title |-> fm.title,
              content |-> removeFrontmatterFromMarkdownFile(file),
              createdAt |-> fm.createdAt,
              updatedAt |-> fm.updatedAt,
              tags |-> IF Has(fm, "tags") THEN fm.tags ELSE NullTags,
              date |-> fm.createdAt,
              published |-> IF Has(fm, "published") THEN fm.published ELSE FALSE]

\* (C28 mutant: the id of the frontmatter is not looked at.)
extractCreatableIgnoringId(file, path) ==
    LET fm == extractFrontmatterFromMarkdownFile(file)
        title == IF Has(fm, "title") THEN fm.title ELSE Stem(path)
        date == IF Has(fm, "date") THEN fm.date ELSE MTime(path)
    IN  IF title = <<>> THEN NullNote
        ELSE IF date = "" THEN NullNote
        ELSE [title |-> title,
              content |-> removeFrontmatterFromMarkdownFile(file),
              date |-> date,
              tags |-> IF Has(fm, "tags") /\ fm.tags # NullTags THEN fm.tags ELSE <<>>]

extractCreatableNoteFromMarkdownFile(file, path) ==
    LET fm == extractFrontmatterFromMarkdownFile(file)
        title == IF Has(fm, "title") THEN fm.title ELSE Stem(path)
        date == IF Has(fm, "date") THEN fm.date ELSE MTime(path)
    IN  IF ~MissingStr(fm, "id") THEN NullNote
        ELSE IF title = <<>> THEN NullNote
        ELSE IF date = "" THEN NullNote
        ELSE [title |-> title,
              content |-> removeFrontmatterFromMarkdownFile(file),
              date |-> date,
              tags |-> IF Has(fm, "tags") /\ fm.tags # NullTags THEN fm.tags ELSE <<>>]

getPrintableNoteContent(note) ==
    [k \in DOMAIN note \ {"content", "googleDocContent"} |-> note[k]]

formatNoteAsMarkdown(note) ==
    LET n == [k \in DOMAIN note \ {"_id"} |-> note[k]]
    IN  MkFile("map", getPrintableNoteContent(n), n.content)

\* ------------------------------------------------------------------ directory

\* The notes directory is the sequence of its entries [path, file] in the order
\* readdir lists them.
Paths(d) ==
    {d[i].path : i \in DOMAIN d}

Exists(d, path) ==
    path \in Paths(d)

FileAt(d, path) ==
    (CHOOSE e \in Range(d) : e.path = path).file

\* writeFile: replaces the file at the path, or adds the path to the directory.
WriteFile(d, path, file) ==
    IF Exists(d, path)
    THEN [i \in DOMAIN d |-> IF d[i].path = path THEN [path |-> path, file |-> file] ELSE d[i]]
    ELSE Append(d, [path |-> path, file |-> file])

Unlink(d, path) ==
    SelectSeq(d, LAMBDA e : e.path # path)

getNoteFilePaths(d) ==
    LET md == SelectSeq(d, LAMBDA e : EndsWithMd(e.path))
    IN  [i \in DOMAIN md |-> md[i].path]

scanNotesDirectory(d) ==
    LET md == SelectSeq(d, LAMBDA e : EndsWithMd(e.path))
        ok == SelectSeq(md, LAMBDA e : extractNoteFromMarkdownFile(e.file) # NullNote)
    IN  [i \in DOMAIN ok |-> [note |-> extractNoteFromMarkdownFile(ok[i].file), path |-> ok[i].path]]

LocalIds(d) ==
    {e.note.id : e \in Range(scanNotesDirectory(d))}

\* ------------------------------------------------------------------ remote store

\* The remote store is the sequence of its records, in the order getAllNotes
\* lists them.
RemoteIds(r) ==
    {r[i].id : i \in DOMAIN r}

\* remoteNotes.find(remoteNote => remoteNote.id === id); only used when present.
FindRemote(r, id) ==
    r[CHOOSE i \in DOMAIN r : r[i].id = id /\ \A j \in DOMAIN r : r[j].id = id => i <= j]

\* The time stamp the remote store gives a record it creates.
ServerNow ==
    "now"

\* The id the remote store assigns to its n-th created record.
NewId(n) ==
    "n" \o ToString(n)

\* tt.notes.createNote: the record the store adds and returns.
CreatedNote(creatable, n) ==
    [id |-> NewId(n),
     title |-> creatable.title,
     content |-> creatable.content,
     date |-> creatable.date,
     tags |-> creatable.tags,
     createdAt |-> ServerNow,
     updatedAt |-> ServerNow,
     published |-> FALSE]

\* tt.notes.updateNote(id, note): the record takes the fields of note.
UpdateNote(r, id, note) ==
    [i \in DOMAIN r |-> IF r[i].id = id THEN [k \in (DOMAIN note) \ {"id"} |-> note[k]] @@ r[i] ELSE r[i]]

\* ------------------------------------------------------------------ writing notes

\* The values Math.random().toString(36).substring(2, 15) takes in the model.
RandomSuffixes ==
    {<<"x">>, <<"y">>}

\* (C13 mutant: the name is returned without the test that no file has it.)
GenNamesUntested(safeTitle, d, retries) ==
    {safeTitle \o MdExt}

\* The names the loop of generateNoteFilename can end with: the sanitized title
\* while no file of that name exists, else the same with a random suffix, again.
RECURSIVE GenNames(_, _, _)
GenNames(safeTitle, d, retries) ==
    IF ~Exists(d, safeTitle \o MdExt) THEN {safeTitle \o MdExt}
    ELSE IF retries = 0 THEN {}
    ELSE UNION {GenNames(safeTitle \o <<"-">> \o r, d, retries - 1) : r \in RandomSuffixes}

generateNoteFilename(note, d) ==
    GenNames(SafeTitle(note.title), d, MaxRandomRetries)

\* allLocalNotes.find(({note: localNote}) => localNote.id === note.id), as the
\* set holding the first such entry, or no entry.
ExistingNote(d, id) ==
    LET scan == scanNotesDirectory(d)
        hits == {i \in DOMAIN scan : scan[i].note.id = id}
    IN  {scan[i] : i \in {i \in hits : \A j \in hits : i <= j}}

\* The path saveNoteToFs writes to, for one result of generateNoteFilename.
SavePath(d, note, filename) ==
    IF ExistingNote(d, note.id) # {}
    THEN (CHOOSE e \in ExistingNote(d, note.id) : TRUE).path
    ELSE filename

\* saveNoteToFs(note, {confirmOverwrite}): the directories it can leave, over
\* the random file names and over the answer to the overwrite prompt.
saveNoteToFs(d, note, confirmOverwrite) ==
    UNION {LET filePath == SavePath(d, note, filename)
               written == WriteFile(d, filePath, formatNoteAsMarkdown(note))
           IN  IF confirmOverwrite /\ Exists(d, filePath)
               THEN {d, written}
               ELSE {written}
           : filename \in generateNoteFilename(note, d)}

\* ------------------------------------------------------------------ conflicts

\* Object.keys(note), for the keys the model uses.
KeyOrder ==
    <<"id", "title", "content", "createdAt", "updatedAt", "tags", "date", "published", "color">>

\* (C18 mutant: the tags are compared as they are, null not taken as [].)
TagsAsGiven(note) ==
    IF Has(note, "tags") THEN note.tags ELSE <<>>

\* note.tags ?? []
TagsOrEmpty(note) ==
    IF ~Has(note, "tags") \/ note.tags = NullTags THEN <<>> ELSE note.tags

\* (C22 mutant: the tags are compared as sets, their order left aside.)
TagsDifferAsSets(remoteNote, note) ==
    Range(TagsOrEmpty(remoteNote)) # Range(TagsOrEmpty(note))

\* JSON.stringify(remoteNote.tags ?? []) !== JSON.stringify(note.tags ?? [])
TagsDiffer(remoteNote, note) ==
    TagsOrEmpty(remoteNote) # TagsOrEmpty(note)

\* remoteNote[key] !== note[key]
Differs(remoteNote, note, key) ==
    \/ Has(remoteNote, key) # Has(note, key)
    \/ Has(note, key) /\ remoteNote[key] # note[key]

\* conflictType of one local note and the remote note of the same id.
ConflictType(note, remoteNote) ==
    LET otherKeys == SelectSeq(KeyOrder, LAMBDA k :
                         Has(note, k) /\ k \notin {"id", "title", "date", "tags", "content"})
    IN  (IF Differs(remoteNote, note, "title") THEN <<"title">> ELSE <<>>)
        \o (IF Differs(remoteNote, note, "date") THEN <<"date">> ELSE <<>>)
        \o (IF TagsDiffer(remoteNote, note) THEN <<"tags">> ELSE <<>>)
        \o (IF RemoveFrontmatterLines(note.content) # remoteNote.content
            THEN <<"content">> ELSE <<>>)
        \o SelectSeq(otherKeys, LAMBDA k : Differs(remoteNote, note, k))

\* (C2 mutant: a local note without remote note is passed over, as the
\* findConflicts of the earlier syncNotes did.)
UnpairedPassedOver(d, remoteNotes) ==
    {}

\* The local notes findConflicts cannot pair: it exits the process on the first.
Unpaired(d, remoteNotes) ==
    {e \in Range(scanNotesDirectory(d)) : e.note.id \notin RemoteIds(remoteNotes)}

\* The loop of findConflicts over the local notes that have a remote note
\* (those without end the process, see Unpaired): each with its remote note
\* and its conflictType.
PairedNotes(d, remoteNotes) ==
    LET scan == SelectSeq(scanNotesDirectory(d),
                          LAMBDA e : e.note.id \in RemoteIds(remoteNotes))
    IN  [i \in DOMAIN scan |->
            [local |-> scan[i],
             remote |-> FindRemote(remoteNotes, scan[i].note.id),
             conflictType |-> ConflictType(scan[i].note,
                                  FindRemote(remoteNotes, scan[i].note.id))]]

\* handleConflict.findConflicts: the pairs with a non-empty conflictType.
findConflicts(d, remoteNotes) ==
    SelectSeq(PairedNotes(d, remoteNotes), LAMBDA c : c.conflictType # <<>>)

\* ------------------------------------------------------------------ state

VARIABLES
    dir,              \* the notes directory: entries [path, file] in readdir order
    head,             \* the directory as of the last git commit
    remote,           \* the remote store: its records in listing order
    created,          \* how many records the remote store has created in this run
    connected,        \* the connection getTT returned is open
    pc,               \* where syncNotes stands; "done", "exit0", "exit1", "threw" end it
    ret,              \* where the running handleGitChanges returns to
    files,            \* ensureAllFilesAreTracked: files
    idx,              \* ensureAllFilesAreTracked: position of filePath in files
    remoteIds,        \* ensureAllFilesAreTracked: remoteIds
    localIdToPath,    \* ensureAllFilesAreTracked: localIdToPath
    creatableNote,    \* ensureAllFilesAreTracked: creatableNote
    note,             \* ensureAllFilesAreTracked: note
    notesToDownload,  \* syncNotes: notesToDownload
    remoteNotes,      \* handleConflict: remoteNotes
    conflicts,        \* handleConflict: conflicts
    cIdx,             \* handleConflict: position of conflict in the push loop
    edits,            \* how many out-of-band edits have been made
    pausedSinceFetch, \* the run has waited for the human since remoteNotes was listed
    cacheFs,          \* getNotes: CACHE_DIR and NOTES_CACHE_FILE as they are on disk
    getNotesResult,   \* getNotes: what the call returned
    fileContent,      \* the codec: file.content, as the lines split('\n') gives
    decoded,          \* the codec: what the two decoding functions returned
    now,              \* the cached listings: Date.now()
    callee,           \* the cached listings: the function called and its options
    service,          \* tt-services: the module variable service
    builds,           \* tt-services: how often buildAndConnect has been called
    callers,          \* tt-services: where each call of getTT stands
    run               \* "first", or how the run before this one ended

vars ==
    <<dir, head, remote, created, connected, pc, ret, files, idx, remoteIds,
      localIdToPath, creatableNote, note, notesToDownload, remoteNotes, conflicts,
      cIdx, edits, pausedSinceFetch, cacheFs, getNotesResult, fileContent, decoded,
      now, callee, service, builds, callers, run>>

cacheVars ==
    <<cacheFs, getNotesResult>>

codecVars ==
    <<fileContent, decoded>>

ttlVars ==
    <<now, callee>>

serviceVars ==
    <<service, builds, callers>>

\* What the sync run leaves alone.
sideVars ==
    <<cacheVars, codecVars, ttlVars, serviceVars, run>>

stores ==
    <<dir, head, remote, created>>

trackLocals ==
    <<files, idx, remoteIds, localIdToPath, creatableNote, note>>

conflictLocals ==
    <<remoteNotes, conflicts, cIdx, pausedSinceFetch>>

\* ------------------------------------------------------------------ the metadata cache

\* tt.notes.getAllNotesMetadata: the records of the store without their content.
getAllNotesMetadata(r) ==
    [i \in DOMAIN r |-> [k \in DOMAIN r[i] \ {"content"} |-> r[i][k]]]

\* The disk around the cache.  dir: CACHE_DIR "exists", or is "missing" and
\* mkdir can ("creatable") or cannot ("uncreatable") make it; writable:
\* writeFile on NOTES_CACHE_FILE succeeds; file: the cache file, see CacheFiles.
MkCache(d, writable, file) ==
    [dir |-> d, writable |-> writable, file |-> file]

\* The cache file parsed to an object: with or without timestamp, the
\* timestamp within CACHE_TTL of now or older, with or without notes.
CacheObject(hasTimestamp, fresh, hasNotes, list) ==
    [kind |-> "object", hasTimestamp |-> hasTimestamp, fresh |-> fresh,
     hasNotes |-> hasNotes, notes |-> list]

\* No cache has been written yet, and one can be.
NoCache ==
    MkCache("creatable", TRUE, [kind |-> "missing"])

\* A cache within its TTL whose listing names a note the store does not have.
StaleCache ==
    MkCache("exists", TRUE,
            CacheObject(TRUE, TRUE, TRUE, <<[id |-> "c", title |-> <<"C">>]>>))

\* getNotes has not returned.
NotReturned ==
    [returned |-> FALSE]

\* Neither getNotes nor getNotesAndUntrackedGoogleDocs is being called.
NoCallee ==
    [fn |-> "none", ignoreTimeout |-> FALSE, ignoreCache |-> FALSE]

\* let service: TylersThings | null = null
Null ==
    [isNull |-> TRUE]

\* No call of getTT has been made.
NoCallers ==
    <<>>

\* Nothing has been decoded.
NotDecoded ==
    [frontmatter |-> [kind |-> "none"], body |-> <<>>]

\* ------------------------------------------------------------------ initial states

T(c) ==
    <<c>>

Line(c) ==
    <<c>>

\* Records of the remote store the initial states draw from.
R1 ==
    [id |-> "1", title |-> T("A"), content |-> <<Line("x")>>, date |-> "d1",
     createdAt |-> "d1", updatedAt |-> "u1", tags |-> <<>>, published |-> FALSE]

R2 ==
    [id |-> "2", title |-> <<"B", " ", "c">>, content |-> <<Line("y")>>, date |-> "d2",
     createdAt |-> "d2", updatedAt |-> "u2", tags |-> <<"t">>, published |-> FALSE]

\* A record whose content itself opens with a delimited block.
R3 ==
    [id |-> "3", title |-> T("D"), content |-> <<Delim, Line("k"), Delim, Line("z")>>,
     date |-> "d3", createdAt |-> "d3", updatedAt |-> "u3", tags |-> <<>>,
     published |-> FALSE]

\* A record without title (the list view shows it as '(untitled)').
R4 ==
    [id |-> "4", title |-> <<>>, content |-> <<Line("w")>>, date |-> "d4",
     createdAt |-> "d4", updatedAt |-> "u4", tags |-> <<>>, published |-> FALSE]

InitRemotes ==
    {<<>>, <<R1>>, <<R1, R2>>, <<R3>>, <<R4>>}

Entry(path, file) ==
    [path |-> path, file |-> file]

\* Local files the initial states draw from: in step with R1; an older title
\* for R1's id; an id the store does not know; no frontmatter; an id without
\* updatedAt; in step with R3.
InitEntries ==
    {Entry(<<"a", ".", "m", "d">>, formatNoteAsMarkdown(R1)),
     Entry(<<"o", ".", "m", "d">>, formatNoteAsMarkdown([R1 EXCEPT !.title = T("O")])),
     Entry(<<"g", ".", "m", "d">>, formatNoteAsMarkdown([R1 EXCEPT !.id = "9", !.title = T("G")])),
     Entry(<<"M", " ", "n", ".", "m", "d">>, MkFile("none", EmptyFm, <<Line("h")>>)),
     Entry(<<"b", ".", "m", "d">>,
           MkFile("map", [id |-> "1", title |-> T("B"), createdAt |-> "d1"], <<Line("x")>>)),
     Entry(<<"d", ".", "m", "d">>, formatNoteAsMarkdown(R3))}

\* The sequences without repetition of at most n members of S.
RECURSIVE SeqsUpTo(_, _)
SeqsUpTo(S, n) ==
    IF n = 0 THEN {<<>>}
    ELSE {<<>>} \cup UNION {{<<e>> \o s : s \in SeqsUpTo(S \ {e}, n - 1)} : e \in S}

EmptyMap ==
    [k \in {} |-> <<>>]

Init ==
    /\ dir \in SeqsUpTo(InitEntries, MaxLocalFiles)
    /\ head \in {dir, <<>>}
    /\ remote \in InitRemotes
    /\ created = 0
    /\ connected = TRUE
    /\ pc = "git_check"
    /\ ret = "track_start"
    /\ files = <<>>
    /\ idx = 0
    /\ remoteIds = {}
    /\ localIdToPath = EmptyMap
    /\ creatableNote = NullNote
    /\ note = NullNote
    /\ notesToDownload = <<>>
    /\ remoteNotes = <<>>
    /\ conflicts = <<>>
    /\ cIdx = 0
    /\ edits = 0
    /\ pausedSinceFetch = FALSE
    /\ cacheFs = StaleCache
    /\ getNotesResult = NotReturned
    /\ fileContent = <<>>
    /\ decoded = NotDecoded
    /\ now = 0
    /\ callee = NoCallee
    /\ service = Null
    /\ builds = 0
    /\ callers = NoCallers
    /\ run = "first"

\* ------------------------------------------------------------------ git and the human

\* getNotesDirHasGitChanges: git status --porcelain prints something.
getNotesDirHasGitChanges ==
    Range(dir) # Range(head)

\* What the human does in lazygit before closing it.
LazygitOps ==
    {"commit", "discard", "none"}

Lazygit(op) ==
    /\ dir' = IF op = "discard" THEN head ELSE dir
    /\ head' = IF op = "commit" THEN dir ELSE head

\* handleGitChanges: the loop test.
GitCheck ==
    /\ pc = "git_check"
    /\ pc' = IF getNotesDirHasGitChanges THEN "git_prompt" ELSE ret
    /\ UNCHANGED <<stores, connected, ret, trackLocals, notesToDownload, conflictLocals, edits>>
    /\ UNCHANGED sideVars

\* handleGitChanges: 'commit', git add and git commit succeed.
GitCommit ==
    /\ pc = "git_prompt"
    /\ head' = dir
    /\ pc' = "git_check"
    /\ UNCHANGED <<dir, remote, created, connected, ret, trackLocals, notesToDownload,
                   conflictLocals, edits>>
    /\ UNCHANGED sideVars

\* handleGitChanges: 'commit', git fails: process.exit(1).
GitCommitFails ==
    /\ pc = "git_prompt"
    /\ pc' = "exit1"
    /\ UNCHANGED <<stores, connected, ret, trackLocals, notesToDownload, conflictLocals, edits>>
    /\ UNCHANGED sideVars

\* handleGitChanges: 'lazygit'.
GitLazygit ==
    /\ pc = "git_prompt"
    /\ \E op \in LazygitOps : Lazygit(op)
    /\ pc' = "git_check"
    /\ UNCHANGED <<remote, created, connected, ret, trackLocals, notesToDownload,
                   conflictLocals, edits>>
    /\ UNCHANGED sideVars

\* (C9 mutant: 'recheck' leaves the loop instead of testing again.)
GitRecheckLeaves ==
    /\ pc = "git_prompt"
    /\ pc' = ret
    /\ UNCHANGED <<stores, connected, ret, trackLocals, notesToDownload, conflictLocals, edits>>
    /\ UNCHANGED sideVars

\* handleGitChanges: 'recheck'.
GitRecheck ==
    /\ pc = "git_prompt"
    /\ pc' = "git_check"
    /\ UNCHANGED <<stores, connected, ret, trackLocals, notesToDownload, conflictLocals, edits>>
    /\ UNCHANGED sideVars

\* handleGitChanges: 'exit': process.exit(0).
GitExit ==
    /\ pc = "git_prompt"
    /\ pc' = "exit0"
    /\ UNCHANGED <<stores, connected, ret, trackLocals, notesToDownload, conflictLocals, edits>>
    /\ UNCHANGED sideVars

\* The title the human gives a note when editing its file.
HumanTitle ==
    <<"E">>

\* While a git prompt waits, the human edits the title in a tracked file.
HumanEdit ==
    /\ pc \in {"git_prompt", "review_prompt"}
    /\ edits < MaxEdits
    /\ \E i \in DOMAIN dir :
          /\ dir[i].file.kind = "map"
          /\ Has(dir[i].file.fm, "title")
          /\ dir[i].file.fm.title # HumanTitle
          /\ dir' = [dir EXCEPT ![i].file.fm.title = HumanTitle]
    /\ edits' = edits + 1
    /\ UNCHANGED <<head, remote, created, connected, pc, ret, trackLocals, notesToDownload,
                   conflictLocals>>
    /\ UNCHANGED sideVars

\* The title another client of the remote store gives a record.
ElsewhereTitle ==
    <<"W">>

\* While the conflict review waits, the record is edited from elsewhere.
RemoteEditedElsewhere ==
    /\ pc = "review_prompt"
    /\ edits < MaxEdits
    /\ \E i \in DOMAIN remote :
          /\ remote[i].title # ElsewhereTitle
          /\ remote' = [remote EXCEPT ![i].title = ElsewhereTitle]
    /\ edits' = edits + 1
    /\ UNCHANGED <<dir, head, created, connected, pc, ret, trackLocals, notesToDownload,
                   conflictLocals>>
    /\ UNCHANGED sideVars

\* ------------------------------------------------------------------ ensureAllFilesAreTracked

filePath ==
    files[idx]

\* The end of one pass of the loop over files: the next file.
NextFile ==
    /\ idx' = idx + 1
    /\ creatableNote' = NullNote
    /\ note' = NullNote
    /\ pc' = "track_file"

\* getNoteFilePaths, getAllNotes, remoteIds, localIdToPath.
TrackStart ==
    /\ pc = "track_start"
    /\ files' = getNoteFilePaths(dir)
    /\ remoteIds' = RemoteIds(remote)
    /\ localIdToPath' = EmptyMap
    /\ idx' = 1
    /\ pc' = "track_file"
    /\ UNCHANGED <<stores, connected, ret, creatableNote, note, notesToDownload,
                   conflictLocals, edits>>
    /\ UNCHANGED sideVars

\* (C7 mutant: a file that is not creatable is logged and passed over.)
TrackNotInSystemPassesOver(file) ==
    IF extractCreatableNoteFromMarkdownFile(file, filePath) = NullNote
    THEN NextFile
    ELSE /\ creatableNote' = extractCreatableNoteFromMarkdownFile(file, filePath)
         /\ pc' = "track_confirm_create"
         /\ UNCHANGED <<idx, note>>

\* if (!note): extractCreatableNoteFromMarkdownFile; null ends the process
\* with exit code 1, a creatable note leads to the confirmation.
TrackNotInSystem(file) ==
    /\ creatableNote' = extractCreatableNoteFromMarkdownFile(file, filePath)
    /\ pc' = IF creatableNote' = NullNote THEN "exit1" ELSE "track_confirm_create"
    /\ UNCHANGED <<idx, note>>

\* readFile and extractNoteFromMarkdownFile of the next file.  readFile of a
\* path that is gone throws.
TrackFile ==
    /\ pc = "track_file"
    /\ idx <= Len(files)
    /\ IF ~Exists(dir, filePath)
       THEN /\ pc' = "threw"
            /\ UNCHANGED <<idx, note, creatableNote>>
       ELSE IF extractNoteFromMarkdownFile(FileAt(dir, filePath)) # NullNote
       THEN /\ note' = extractNoteFromMarkdownFile(FileAt(dir, filePath))
            /\ pc' = "track_check_remote"
            /\ UNCHANGED <<idx, creatableNote>>
       ELSE TrackNotInSystem(FileAt(dir, filePath))
    /\ UNCHANGED <<stores, connected, ret, files, remoteIds, localIdToPath,
                   notesToDownload, conflictLocals, edits>>
    /\ UNCHANGED sideVars

\* (C31 mutant: handleConflict's work starts straight after the tracking pass,
\* without the download and without the git check.)
TrackDoneSkipsDownload ==
    /\ pc = "track_file"
    /\ idx > Len(files)
    /\ pc' = "conflict_start"
    /\ files' = <<>>
    /\ idx' = 0
    /\ remoteIds' = {}
    /\ localIdToPath' = EmptyMap
    /\ UNCHANGED <<stores, connected, ret, creatableNote, note, notesToDownload,
                   conflictLocals, edits>>
    /\ UNCHANGED sideVars

\* The loop over files is over: ensureAllFilesAreTracked returns.
TrackDone ==
    /\ pc = "track_file"
    /\ idx > Len(files)
    /\ pc' = "download_start"
    /\ files' = <<>>
    /\ idx' = 0
    /\ remoteIds' = {}
    /\ localIdToPath' = EmptyMap
    /\ UNCHANGED <<stores, connected, ret, creatableNote, note, notesToDownload,
                   conflictLocals, edits>>
    /\ UNCHANGED sideVars

\* confirm(`Create note ...?`) answers false: process.exit(0).
TrackDeclineCreate ==
    /\ pc = "track_confirm_create"
    /\ pc' = "exit0"
    /\ UNCHANGED <<stores, connected, ret, trackLocals, notesToDownload, conflictLocals, edits>>
    /\ UNCHANGED sideVars

\* createNote(creatable) followed by saveNoteToFs(createdNote, {dir}).
CreateAndSave(creatable) ==
    /\ created' = created + 1
    /\ remote' = Append(remote, CreatedNote(creatable, created + 1))
    /\ dir' \in saveNoteToFs(dir, CreatedNote(creatable, created + 1), FALSE)
    /\ note' = CreatedNote(creatable, created + 1)

\* confirm answers true: createNote, saveNoteToFs, note = createdNote.
TrackCreate ==
    /\ pc = "track_confirm_create"
    /\ CreateAndSave(creatableNote)
    /\ pc' = "track_check_remote"
    /\ UNCHANGED <<head, connected, ret, files, idx, remoteIds, localIdToPath,
                   creatableNote, notesToDownload, conflictLocals, edits>>
    /\ UNCHANGED sideVars

\* (C8 mutant: the rejection is caught and logged, and the loop goes on with
\* the next file.)
RemoteCallSwallowed ==
    /\ NextFile
    /\ UNCHANGED <<stores, connected, ret, files, remoteIds, localIdToPath,
                   notesToDownload, conflictLocals, edits>>

\* A remote call of the tracking pass (createNote) rejects: nothing catches it.
RemoteCallThrows ==
    /\ pc' = "threw"
    /\ UNCHANGED <<stores, connected, ret, trackLocals, notesToDownload, conflictLocals, edits>>

\* confirm answers true and createNote rejects.
TrackCreateFails ==
    /\ pc = "track_confirm_create"
    /\ RemoteCallThrows
    /\ UNCHANGED sideVars

\* if (!remoteIds.has(note.id))
TrackCheckRemote ==
    /\ pc = "track_check_remote"
    /\ pc' = IF note.id \notin remoteIds THEN "track_missing_prompt" ELSE "track_check_dup"
    /\ UNCHANGED <<stores, connected, ret, trackLocals, notesToDownload, conflictLocals, edits>>
    /\ UNCHANGED sideVars

\* 'create': createNote with the local title, content, date and tags, then
\* saveNoteToFs(createdNote, {dir}), note = createdNote.
TrackRecreate ==
    /\ pc = "track_missing_prompt"
    /\ CreateAndSave([title |-> note.title, content |-> note.content,
                      date |-> note.date, tags |-> TagsOrEmpty(note)])
    /\ pc' = "track_check_dup"
    /\ UNCHANGED <<head, connected, ret, files, idx, remoteIds, localIdToPath,
                   creatableNote, notesToDownload, conflictLocals, edits>>
    /\ UNCHANGED sideVars

\* 'create' and createNote rejects.
TrackRecreateFails ==
    /\ pc = "track_missing_prompt"
    /\ RemoteCallThrows
    /\ UNCHANGED sideVars

\* 'delete': unlink(filePath); continue.
TrackDeleteMissing ==
    /\ pc = "track_missing_prompt"
    /\ IF Exists(dir, filePath)
       THEN /\ dir' = Unlink(dir, filePath)
            /\ NextFile
       ELSE /\ pc' = "threw"
            /\ UNCHANGED <<dir, idx, creatableNote, note>>
    /\ UNCHANGED <<head, remote, created, connected, ret, files, remoteIds, localIdToPath,
                   notesToDownload, conflictLocals, edits>>
    /\ UNCHANGED sideVars

\* 'exit': process.exit(0).
TrackMissingExit ==
    /\ pc = "track_missing_prompt"
    /\ pc' = "exit0"
    /\ UNCHANGED <<stores, connected, ret, trackLocals, notesToDownload, conflictLocals, edits>>
    /\ UNCHANGED sideVars

\* localIdToPath.get(note.id): a prompt when there is one, else
\* localIdToPath.set(note.id, filePath) and the next file.
TrackCheckDup ==
    /\ pc = "track_check_dup"
    /\ IF note.id \in DOMAIN localIdToPath
       THEN /\ pc' = "track_dup_prompt"
            /\ UNCHANGED <<idx, localIdToPath, creatableNote, note>>
       ELSE /\ localIdToPath' = (note.id :> filePath) @@ localIdToPath
            /\ NextFile
    /\ UNCHANGED <<stores, connected, ret, files, remoteIds, notesToDownload,
                   conflictLocals, edits>>
    /\ UNCHANGED sideVars

\* (C32 mutant: the one answer removes both files of the id.)
DeleteDuplicateBoth(path) ==
    IF Exists(dir, path)
    THEN /\ dir' = Unlink(Unlink(dir, localIdToPath[note.id]), filePath)
         /\ localIdToPath' = (note.id :> filePath) @@ localIdToPath
         /\ NextFile
    ELSE /\ pc' = "threw"
         /\ UNCHANGED <<dir, idx, localIdToPath, creatableNote, note>>

\* unlink(path), then localIdToPath.set(note.id, filePath); unlink of a path
\* that is gone throws.
DeleteDuplicate(path) ==
    IF Exists(dir, path)
    THEN /\ dir' = Unlink(dir, path)
         /\ localIdToPath' = (note.id :> filePath) @@ localIdToPath
         /\ NextFile
    ELSE /\ pc' = "threw"
         /\ UNCHANGED <<dir, idx, localIdToPath, creatableNote, note>>

\* `delete ${duplicatePath}`
TrackDupDeleteOther ==
    /\ pc = "track_dup_prompt"
    /\ DeleteDuplicate(localIdToPath[note.id])
    /\ UNCHANGED <<head, remote, created, connected, ret, files, remoteIds,
                   notesToDownload, conflictLocals, edits>>
    /\ UNCHANGED sideVars

\* `delete ${filePath}`
TrackDupDeleteThis ==
    /\ pc = "track_dup_prompt"
    /\ DeleteDuplicate(filePath)
    /\ UNCHANGED <<head, remote, created, connected, ret, files, remoteIds,
                   notesToDownload, conflictLocals, edits>>
    /\ UNCHANGED sideVars

\* 'exit': process.exit(0).
TrackDupExit ==
    /\ pc = "track_dup_prompt"
    /\ pc' = "exit0"
    /\ UNCHANGED <<stores, connected, ret, trackLocals, notesToDownload, conflictLocals, edits>>
    /\ UNCHANGED sideVars

\* ------------------------------------------------------------------ download

\* (C16 mutant: the test against the local ids is left out.)
findRemoteNotesToDownloadUnfiltered(d, r) ==
    r

findRemoteNotesToDownload(d, r) ==
    SelectSeq(r, LAMBDA remoteNote : remoteNote.id \notin LocalIds(d))

\* findLocalNotesMissingOnServer: the local notes whose id the store lacks.
findLocalNotesMissingOnServer(d, r) ==
    SelectSeq(scanNotesDirectory(d), LAMBDA e : e.note.id \notin RemoteIds(r))

\* saveNoteToFs of each note in turn: the directories that can result.
RECURSIVE SaveAll(_, _, _)
SaveAll(d, notes, confirmOverwrite) ==
    IF notes = <<>> THEN {d}
    ELSE UNION {SaveAll(d2, Tail(notes), confirmOverwrite) :
                   d2 \in saveNoteToFs(d, Head(notes), confirmOverwrite)}

\* The call of handleConflict, which opens with handleGitChanges.
EnterHandleConflict ==
    /\ pc' = "git_check"
    /\ ret' = "conflict_start"
    /\ notesToDownload' = <<>>

\* findRemoteNotesToDownload; nothing to download goes on to handleConflict.
DownloadStart ==
    /\ pc = "download_start"
    /\ IF findRemoteNotesToDownload(dir, remote) = <<>>
       THEN EnterHandleConflict
       ELSE /\ notesToDownload' = findRemoteNotesToDownload(dir, remote)
            /\ pc' = "download_confirm"
            /\ UNCHANGED ret
    /\ UNCHANGED <<stores, connected, trackLocals, conflictLocals, edits>>
    /\ UNCHANGED sideVars

\* (C6 mutant: the answer is not looked at, the notes are saved all the same.)
DownloadDeclineIgnored ==
    /\ pc = "download_confirm"
    /\ dir' \in SaveAll(dir, notesToDownload, TRUE)
    /\ EnterHandleConflict
    /\ UNCHANGED <<head, remote, created, connected, trackLocals, conflictLocals, edits>>
    /\ UNCHANGED sideVars

\* confirm('Download notes from server?') answers false.
DownloadDecline ==
    /\ pc = "download_confirm"
    /\ EnterHandleConflict
    /\ UNCHANGED <<stores, connected, trackLocals, conflictLocals, edits>>
    /\ UNCHANGED sideVars

\* confirm answers true: saveNoteToFs(note, {dir, confirmOverwrite: true}) of each.
DownloadConfirm ==
    /\ pc = "download_confirm"
    /\ dir' \in SaveAll(dir, notesToDownload, TRUE)
    /\ EnterHandleConflict
    /\ UNCHANGED <<head, remote, created, connected, trackLocals, conflictLocals, edits>>
    /\ UNCHANGED sideVars

\* ------------------------------------------------------------------ handleConflict

RemoteOf(cs) ==
    [i \in DOMAIN cs |-> cs[i].remote]

\* getAllNotes, findConflicts, and saveNoteToFs(conflict.remote) of each
\* conflict; findConflicts ends the process on a local note without remote note.
ConflictSurface ==
    /\ pc = "conflict_start"
    /\ remoteNotes' = remote
    /\ pausedSinceFetch' = FALSE
    /\ IF Unpaired(dir, remote) # {}
       THEN /\ pc' = "exit1"
            /\ UNCHANGED <<dir, conflicts>>
       ELSE /\ conflicts' = findConflicts(dir, remote)
            /\ dir' \in SaveAll(dir, RemoteOf(findConflicts(dir, remote)), FALSE)
            /\ pc' = "review_check"
    /\ UNCHANGED <<head, remote, created, connected, ret, trackLocals, notesToDownload,
                   cIdx, edits>>
    /\ UNCHANGED sideVars

\* The loop test of the conflict review; a dirty tree shows the prompt.
ReviewCheck ==
    /\ pc = "review_check"
    /\ pc' = IF getNotesDirHasGitChanges THEN "review_prompt" ELSE "review_recompute"
    /\ pausedSinceFetch' = (pausedSinceFetch \/ getNotesDirHasGitChanges)
    /\ UNCHANGED <<stores, connected, ret, trackLocals, notesToDownload, remoteNotes,
                   conflicts, cIdx, edits>>
    /\ UNCHANGED sideVars

\* 'lazygit'
ReviewLazygit ==
    /\ pc = "review_prompt"
    /\ \E op \in LazygitOps : Lazygit(op)
    /\ pc' = "review_check"
    /\ UNCHANGED <<remote, created, connected, ret, trackLocals, notesToDownload,
                   conflictLocals, edits>>
    /\ UNCHANGED sideVars

\* 'recheck'
ReviewRecheck ==
    /\ pc = "review_prompt"
    /\ pc' = "review_check"
    /\ UNCHANGED <<stores, connected, ret, trackLocals, notesToDownload, conflictLocals, edits>>
    /\ UNCHANGED sideVars

\* 'exit': process.exit(0).
ReviewExit ==
    /\ pc = "review_prompt"
    /\ pc' = "exit0"
    /\ UNCHANGED <<stores, connected, ret, trackLocals, notesToDownload, conflictLocals, edits>>
    /\ UNCHANGED sideVars

\* The second findConflicts, over the remoteNotes listed before the review; no
\* conflict returns from handleConflict, else the push loop starts.
ReviewRecompute ==
    /\ pc = "review_recompute"
    /\ IF Unpaired(dir, remoteNotes) # {}
       THEN /\ pc' = "exit1"
            /\ UNCHANGED <<conflicts, cIdx>>
       ELSE /\ conflicts' = findConflicts(dir, remoteNotes)
            /\ IF conflicts' = <<>>
               THEN pc' = "disconnect" /\ cIdx' = 0
               ELSE pc' = "push_prompt" /\ cIdx' = 1
    /\ UNCHANGED <<stores, connected, ret, trackLocals, notesToDownload, remoteNotes,
                   pausedSinceFetch, edits>>
    /\ UNCHANGED sideVars

\* (C3 mutant: after the last conflict the review starts over.)
NextConflictStartsOver ==
    /\ cIdx' = IF cIdx + 1 > Len(conflicts) THEN 0 ELSE cIdx + 1
    /\ pc' = IF cIdx + 1 > Len(conflicts) THEN "review_check" ELSE "push_prompt"

\* The next conflict of the push loop, or the end of handleConflict.
NextConflict ==
    /\ cIdx' = cIdx + 1
    /\ pc' = IF cIdx + 1 > Len(conflicts) THEN "disconnect" ELSE "push_prompt"

\* confirm(`Push changes to server ...?`) answers true: updateNote.
PushConfirm ==
    /\ pc = "push_prompt"
    /\ remote' = UpdateNote(remote, conflicts[cIdx].remote.id, conflicts[cIdx].local.note)
    /\ NextConflict
    /\ pausedSinceFetch' = TRUE
    /\ UNCHANGED <<dir, head, created, connected, ret, trackLocals, notesToDownload,
                   remoteNotes, conflicts, edits>>
    /\ UNCHANGED sideVars

\* confirm answers true and updateNote rejects: nothing catches it.
PushFails ==
    /\ pc = "push_prompt"
    /\ pc' = "threw"
    /\ pausedSinceFetch' = TRUE
    /\ UNCHANGED <<stores, connected, ret, trackLocals, notesToDownload, remoteNotes,
                   conflicts, cIdx, edits>>
    /\ UNCHANGED sideVars

\* (C15 mutant: the answer to the push prompt is not looked at.)
PushDeclineIgnored ==
    /\ pc = "push_prompt"
    /\ remote' = UpdateNote(remote, conflicts[cIdx].remote.id, conflicts[cIdx].local.note)
    /\ NextConflict
    /\ pausedSinceFetch' = TRUE
    /\ UNCHANGED <<dir, head, created, connected, ret, trackLocals, notesToDownload,
                   remoteNotes, conflicts, edits>>
    /\ UNCHANGED sideVars

\* confirm answers false.
PushDecline ==
    /\ pc = "push_prompt"
    /\ NextConflict
    /\ pausedSinceFetch' = TRUE
    /\ UNCHANGED <<stores, connected, ret, trackLocals, notesToDownload, remoteNotes,
                   conflicts, edits>>
    /\ UNCHANGED sideVars

\* logger.info('Sync complete'); tt.disconnect().
Disconnect ==
    /\ pc = "disconnect"
    /\ connected' = FALSE
    /\ pc' = "done"
    /\ UNCHANGED <<stores, ret, trackLocals, notesToDownload, conflictLocals, edits>>
    /\ UNCHANGED sideVars

\* ------------------------------------------------------------------ specification

Next ==
    \/ GitCheck
    \/ GitCommit
    \/ GitCommitFails
    \/ GitLazygit
    \/ GitRecheck
    \/ GitExit
    \/ HumanEdit
    \/ RemoteEditedElsewhere
    \/ TrackStart
    \/ TrackFile
    \/ TrackDone
    \/ TrackDeclineCreate
    \/ TrackCreate
    \/ TrackCreateFails
    \/ TrackCheckRemote
    \/ TrackRecreate
    \/ TrackRecreateFails
    \/ TrackDeleteMissing
    \/ TrackMissingExit
    \/ TrackCheckDup
    \/ TrackDupDeleteOther
    \/ TrackDupDeleteThis
    \/ TrackDupExit
    \/ DownloadStart
    \/ DownloadDecline
    \/ DownloadConfirm
    \/ ConflictSurface
    \/ ReviewCheck
    \/ ReviewLazygit
    \/ ReviewRecheck
    \/ ReviewExit
    \/ ReviewRecompute
    \/ PushConfirm
    \/ PushFails
    \/ PushDecline
    \/ Disconnect

Spec ==
    Init /\ [][Next]_vars

\* ------------------------------------------------------------------ fresh classification

\* The process has ended without reaching the end of syncNotes.
Ended ==
    {"exit0", "exit1", "threw"}

\* A fresh scan against a fresh listing: ids only local, ids only remote, and
\* the matched notes with a non-empty conflictType.
LocalOnlyIds ==
    LocalIds(dir) \ RemoteIds(remote)

RemoteOnlyIds ==
    RemoteIds(remote) \ LocalIds(dir)

FreshConflicts ==
    {e \in Range(scanNotesDirectory(dir)) :
        /\ e.note.id \in RemoteIds(remote)
        /\ ConflictType(e.note, FindRemote(remote, e.note.id)) # <<>>}

\* The id the file at a path resolves to, "" when it is no note or is gone.
IdAt(d, path) ==
    IF Exists(d, path) /\ extractNoteFromMarkdownFile(FileAt(d, path)) # NullNote
    THEN extractNoteFromMarkdownFile(FileAt(d, path)).id
    ELSE ""

\* An entry that is neither a note nor creatable.
Invalid(e) ==
    /\ extractNoteFromMarkdownFile(e.file) = NullNote
    /\ extractCreatableNoteFromMarkdownFile(e.file, e.path) = NullNote

\* ------------------------------------------------------------------ claims

\* C1: whenever syncNotes reaches Done (disconnect) without an exit path, a
\* fresh scan against a fresh remote listing has no matched id with a
\* non-empty fieldDiffs.
C1_FixedPointConflicts ==
    pc = "done" => FreshConflicts = {}

\* C2, as claimed: whenever syncNotes reaches Done without an exit path, a
\* fresh classification has no LocalOnly id and no RemoteOnly id.
C2_NoLocalOnlyNoRemoteOnly ==
    pc = "done" => (LocalOnlyIds = {} /\ RemoteOnlyIds = {})

\* C2, amended: whenever syncNotes reaches Done without an exit path, a fresh
\* classification has no LocalOnly id (RemoteOnly ids can remain).
C2_NoLocalOnlyAtDone ==
    pc = "done" => LocalOnlyIds = {}

\* C2 witness: Done is reached after the tracking pass created a record, with
\* tracked local notes present.
C2_Witness ==
    pc = "done" /\ created > 0 /\ LocalIds(dir) # {}

C4_FreshRemoteAfterPause ==
    pc = "review_recompute" => ~pausedSinceFetch

\* C5: when the creation of a local file without id is confirmed, the set of
\* paths of the notes directory is unchanged and that path resolves to the id
\* the remote create assigned.
C5_CreateRewritesInPlace ==
    [][(pc = "track_confirm_create" /\ pc' = "track_check_remote")
          => (Paths(dir') = Paths(dir) /\ IdAt(dir', filePath) = note'.id)]_vars

\* C6, as claimed: a confirmation answered false (create note, download
\* notes, push changes) skips that action only: no store changes and the run
\* goes on.
C6_DeclineSkipsOnly ==
    [][(TrackDeclineCreate \/ DownloadDecline \/ PushDecline)
          => (pc' \notin Ended /\ UNCHANGED <<dir, remote, created>>)]_vars

\* C6, amended: a declined download or push skips that action only and the
\* run goes on; a declined create changes no store either, but ends the
\* process with exit code 0.
C6_DeclineSkipsOrExits ==
    /\ [][(DownloadDecline \/ PushDecline)
             => (pc' \notin Ended /\ UNCHANGED <<dir, remote, created>>)]_vars
    /\ [][TrackDeclineCreate
             => (pc' = "exit0" /\ UNCHANGED <<dir, remote, created>>)]_vars

\* C6 witness: the download was declined and the run goes on to handleConflict
\* with the remote-only notes still not on disk (the tree is dirty from the
\* tracking pass, so it is not a git discard that removed them).
C6_Witness ==
    /\ pc = "git_check"
    /\ ret = "conflict_start"
    /\ getNotesDirHasGitChanges
    /\ RemoteOnlyIds # {}

\* C7, as claimed: a local file that is neither a note nor creatable never
\* ends the run.
C7_InvalidNeverEndsRun ==
    [][(pc = "track_file" /\ idx <= Len(files) /\ Exists(dir, filePath)
           /\ Invalid(Entry(filePath, FileAt(dir, filePath))))
          => pc' \notin Ended]_vars

\* C7, amended: a local file that is neither a note nor creatable is never
\* deleted or modified by the run, but the tracking pass ends the process
\* with exit code 1 when it reaches the file.
C7_InvalidEndsRunUntouched ==
    /\ [][(pc = "track_file" /\ idx <= Len(files) /\ Exists(dir, filePath)
              /\ Invalid(Entry(filePath, FileAt(dir, filePath))))
             => (pc' = "exit1" /\ dir' = dir)]_vars
    /\ [][~(HumanEdit \/ GitLazygit \/ ReviewLazygit)
             => \A e \in Range(dir) : Invalid(e) => e \in Range(dir')]_vars

\* C7 witness: the process has ended with exit code 1 at a file that is
\* neither a note nor creatable, and the file is still there.
C7_Witness ==
    /\ pc = "exit1"
    /\ idx \in DOMAIN files
    /\ Exists(dir, filePath)
    /\ Invalid(Entry(filePath, FileAt(dir, filePath)))

\* C8: a createNote or updateNote that fails ends syncNotes with the error;
\* neither store has changed for the failed call, and nothing happens after.
C8_RemoteFailureAborts ==
    /\ [][(TrackCreateFails \/ TrackRecreateFails \/ PushFails)
             => (pc' = "threw" /\ UNCHANGED <<dir, head, remote, created, connected>>)]_vars
    /\ [][pc = "threw" => UNCHANGED vars]_vars

\* C8 witness: the create of a creatable file failed: the process has ended
\* with the error, nothing was created and the file has no id.
C8_Witness ==
    /\ pc = "threw"
    /\ creatableNote # NullNote
    /\ created = 0
    /\ IdAt(dir, filePath) = ""

\* C9: handleGitChanges returns only when the git query just made reported a
\* clean tree; a dirty tree leads to the prompt, the prompt leads back to the
\* query or ends the process ('exit' with code 0, a failed commit with 1).
C9_GitPrecheck ==
    /\ [][(pc = "git_check" /\ getNotesDirHasGitChanges) => pc' = "git_prompt"]_vars
    /\ [][(pc = "git_check" /\ pc' # "git_check" /\ pc' # "git_prompt")
             => (~getNotesDirHasGitChanges /\ pc' = ret
                   /\ ret \in {"track_start", "conflict_start"})]_vars
    /\ [][(pc = "git_prompt" /\ pc' # "git_prompt")
             => pc' \in {"git_check", "exit0", "exit1"}]_vars
    /\ [][GitExit => pc' = "exit0"]_vars
    /\ [][GitCommitFails => pc' = "exit1"]_vars
    /\ [][pc' \in {"track_start", "conflict_start"} => Range(dir') = Range(head')]_vars

\* C9 witness: the tracking pass starts after the git prompt was shown (the
\* human edited a file while it waited).
C9_Witness ==
    pc = "track_start" /\ edits > 0

\* C10: choosing to create a note again for an id the remote store lacks
\* issues one remote create, and afterwards no local file carries the old id.
C10_RecreateDropsOldId ==
    [][(pc = "track_missing_prompt" /\ pc' = "track_check_dup")
          => (created' = created + 1 /\ note.id \notin LocalIds(dir'))]_vars

\* The entries of a scan that carry an id.
FilesWithId(d, id) ==
    {e \in Range(scanNotesDirectory(d)) : e.note.id = id}

\* C11: when ensureAllFilesAreTracked has completed normally, every id is
\* carried by at most one local file.
C11_AtMostOneFilePerId ==
    pc = "download_start" => \A id \in LocalIds(dir) : Cardinality(FilesWithId(dir, id)) <= 1

\* C12: the notes to download are the remote records no local note carries
\* the id of, in the state the phase finds; after a confirmed download every
\* remote id has exactly one local file resolving to it, and the phase changes
\* nothing in the remote store.
C12_DownloadCompletes ==
    /\ [][(pc = "download_start" /\ pc' = "download_confirm")
             => ({n.id : n \in Range(notesToDownload')} = RemoteOnlyIds
                   /\ UNCHANGED <<dir, remote, created>>)]_vars
    /\ [][DownloadConfirm
             => ((\A id \in RemoteIds(remote) : Cardinality(FilesWithId(dir', id)) = 1)
                   /\ UNCHANGED <<remote, created>>)]_vars

\* The id in the frontmatter of a file, "" when it has none.
FmId(file) ==
    IF HasFrontmatter(file) /\ ~MissingStr(file.fm, "id") THEN file.fm.id ELSE ""

\* C13: a step of the run (not the human's edits or the VCS tool) replaces
\* the content of an existing local file only when that file resolved to the
\* id of the note written; a file of another note or without id is never
\* replaced because the derived file name collides.
C13_NoOverwriteByCollision ==
    [][~(HumanEdit \/ GitLazygit \/ ReviewLazygit)
          => \A e \in Range(dir) :
                (Exists(dir', e.path) /\ FileAt(dir', e.path) # e.file)
                   => (IdAt(dir, e.path) # ""
                         /\ FmId(FileAt(dir', e.path)) = IdAt(dir, e.path))]_vars

\* C13 witness: the derived name g.md was taken by the file of another note,
\* and the created note was written next to it under a suffixed name.
C13_Witness ==
    /\ IdAt(dir, <<"g", ".", "m", "d">>) = "9"
    /\ \E r \in RandomSuffixes :
          /\ Exists(dir, <<"g", "-">> \o r \o MdExt)
          /\ IdAt(dir, <<"g", "-">> \o r \o MdExt) \notin {"", "9"}

\* The paths of the local notes of a list of conflicts.
ConflictPaths(cs) ==
    {cs[i].local.path : i \in DOMAIN cs}

\* C14: the step that finds the conflicts and saves the remote versions
\* leaves, at the path of every conflict, the serialized remote note; it
\* changes no other local file and nothing in the remote store.
C14_SurfaceOverwritesOwnPath ==
    [][(pc = "conflict_start" /\ pc' = "review_check")
          => (/\ \A i \in DOMAIN conflicts' :
                    FileAt(dir', conflicts'[i].local.path)
                       = formatNoteAsMarkdown(conflicts'[i].remote)
              /\ Paths(dir') = Paths(dir)
              /\ \A e \in Range(dir) :
                    e.path \notin ConflictPaths(conflicts') => e \in Range(dir')
              /\ UNCHANGED <<remote, created>>)]_vars

\* The fields findConflicts compares by name.
ComparedFields ==
    {"title", "date", "tags", "content"}

\* C15: the conflicts are recomputed only once the tree is clean; in the push
\* loop the remote store changes exactly on a confirmed push, which leaves
\* the record of the conflict with the compared fields of the local note and
\* every other record as it was; a declined push changes nothing remote.
C15_PushIffConfirmed ==
    /\ [][pc' = "review_recompute" => Range(dir') = Range(head')]_vars
    /\ [][PushConfirm
             => (/\ \A k \in ComparedFields :
                       FindRemote(remote', conflicts[cIdx].remote.id)[k]
                          = conflicts[cIdx].local.note[k]
                 /\ \A i \in DOMAIN remote :
                       remote[i].id # conflicts[cIdx].remote.id => remote'[i] = remote[i]
                 /\ Len(remote') = Len(remote))]_vars
    /\ [][PushDecline => UNCHANGED <<remote, created, dir>>]_vars
    /\ [][(pc = "push_prompt" /\ remote' # remote) => PushConfirm]_vars

\* C15 witness: the run has ended its push loop and the remote record of id
\* "1" carries the title of the local file o.md, which only a push gives it.
C15_Witness ==
    /\ pc = "disconnect"
    /\ \E i \in DOMAIN remote : remote[i].id = "1" /\ remote[i].title = T("O")

\* ------------------------------------------------------------------ the functions called on their own

\* The frontmatters with at most the one key k, over the values vals.
KeyFms(k, vals) ==
    {EmptyFm} \cup {(k :> v) : v \in vals}

\* Frontmatter mappings over id, createdAt, updatedAt, title and date, each
\* key absent, empty or set.
CallFms ==
    {a @@ b @@ c @@ d @@ e :
        a \in KeyFms("id", {"", "5", "7"}),
        b \in KeyFms("createdAt", {"", "d1"}),
        c \in KeyFms("updatedAt", {"", "u1"}),
        d \in KeyFms("title", {<<>>, T("O")}),
        e \in KeyFms("date", {"", "d1"})}

Draft ==
    <<"D", "r", "a", "f", "t">>

\* Frontmatter mappings of drafts: with or without id, title and tags (null,
\* empty, two tags).
DraftFms ==
    {a @@ b @@ c :
        a \in KeyFms("id", {"5"}),
        b \in KeyFms("title", {Draft}),
        c \in KeyFms("tags", {NullTags, <<>>, <<"a", "b">>})}

\* Files: with each of these frontmatters, without frontmatter, and with a
\* delimited block that is no mapping.
CallFiles ==
    {MkFile("map", fm, <<Line("x")>>) : fm \in CallFms \cup DraftFms}
       \cup {MkFile("none", EmptyFm, <<Line("x")>>), MkFile("other", EmptyFm, <<Line("x")>>)}

\* File names: with a stem, and without.
CallPaths ==
    {<<"a", ".", "m", "d">>, <<".", "m", "d">>}

\* Remote records for the calls.
Q5 ==
    [id |-> "5", title |-> T("N"), content |-> <<Line("x")>>, date |-> "d1",
     createdAt |-> "d1", updatedAt |-> "u1", tags |-> <<>>, published |-> FALSE]

Q6 ==
    [Q5 EXCEPT !.id = "6"]

\* Local snapshots: one file, or the note of id "5" followed by a second note.
CallDirs ==
    {<<Entry(path, file)>> : path \in CallPaths, file \in CallFiles}
       \cup {<<Entry(<<"a", ".", "m", "d">>, formatNoteAsMarkdown(Q5)),
               Entry(<<"b", ".", "m", "d">>, formatNoteAsMarkdown([Q5 EXCEPT !.id = i, !.title = T("O")]))>>
              : i \in {"5", "7"}}

CallRemotes ==
    {<<>>, <<Q5>>, <<Q6>>, <<Q5, Q6>>, <<[Q5 EXCEPT !.updatedAt = "u2"]>>}

\* Records of id "5" that differ in their tags (absent, null, empty, two tags
\* in either order) and in a further field, color (absent or set).
CompareNotes ==
    {t @@ c @@ [k \in DOMAIN Q5 \ {"tags"} |-> Q5[k]] :
        t \in KeyFms("tags", {NullTags, <<>>, <<"a", "b">>, <<"b", "a">>}),
        c \in KeyFms("color", {"red", "blue"})}

\* A local file saved from one such record, and a listing with another.
ComparePairs ==
    {<< <<Entry(<<"a", ".", "m", "d">>, formatNoteAsMarkdown(l))>>, <<r>> >> :
        l \in CompareNotes, r \in CompareNotes}

\* Directory entries for the scan, in readdir order: a note, a note whose
\* file name ends in upper case, a note in a file of another ending, a block
\* that is no mapping, a frontmatter without updatedAt.
ScanEntries ==
    <<Entry(<<"a", ".", "m", "d">>, formatNoteAsMarkdown(Q5)),
      Entry(<<"B", ".", "M", "D">>, formatNoteAsMarkdown(Q6)),
      Entry(<<"c", ".", "t", "x", "t">>, formatNoteAsMarkdown([Q5 EXCEPT !.id = "7"])),
      Entry(<<"d", ".", "m", "d">>, MkFile("other", EmptyFm, <<Line("x")>>)),
      Entry(<<"e", ".", "m", "d">>,
            MkFile("map", [id |-> "8", title |-> T("N"), createdAt |-> "d1"], <<Line("x")>>))>>

ScanDirs ==
    {SelectSeq(ScanEntries, LAMBDA e : e \in sub) : sub \in (SUBSET Range(ScanEntries)) \ {{}}}

InitCalls ==
    /\ \E p \in (CallDirs \X CallRemotes) \cup ComparePairs \cup (ScanDirs \X {<<>>}) :
          dir = p[1] /\ remote = p[2]
    /\ head = dir
    /\ created = 0
    /\ connected = TRUE
    /\ pc = "call"
    /\ ret = "call"
    /\ files = <<>>
    /\ idx = 1
    /\ remoteIds = {}
    /\ localIdToPath = EmptyMap
    /\ creatableNote = NullNote
    /\ note = NullNote
    /\ notesToDownload = <<>>
    /\ remoteNotes = <<>>
    /\ conflicts = <<>>
    /\ cIdx = 0
    /\ edits = 0
    /\ pausedSinceFetch = FALSE
    /\ cacheFs = NoCache
    /\ getNotesResult = NotReturned
    /\ fileContent = <<>>
    /\ decoded = NotDecoded
    /\ now = 0
    /\ callee = NoCallee
    /\ service = Null
    /\ builds = 0
    /\ callers = NoCallers
    /\ run = "first"

\* extractNoteFromMarkdownFile and extractCreatableNoteFromMarkdownFile of the
\* first file of the directory.
CallExtract ==
    /\ pc = "call"
    /\ note' = extractNoteFromMarkdownFile(dir[1].file)
    /\ creatableNote' = extractCreatableNoteFromMarkdownFile(dir[1].file, dir[1].path)
    /\ pc' = "extracted"
    /\ UNCHANGED <<stores, connected, ret, files, idx, remoteIds, localIdToPath,
                   notesToDownload, conflictLocals, edits>>
    /\ UNCHANGED sideVars

\* scanNotesDirectory: the paths and the notes it returns.
CallScan ==
    /\ pc = "call"
    /\ files' = [i \in DOMAIN scanNotesDirectory(dir) |-> scanNotesDirectory(dir)[i].path]
    /\ notesToDownload' = [i \in DOMAIN scanNotesDirectory(dir) |->
                              scanNotesDirectory(dir)[i].note]
    /\ pc' = "scanned"
    /\ UNCHANGED <<stores, connected, ret, idx, remoteIds, localIdToPath, creatableNote,
                   note, conflictLocals, edits>>
    /\ UNCHANGED sideVars

\* scanNotesDirectory when readdir fails: getNoteFilePaths logs and rethrows.
CallScanThrows ==
    /\ pc = "call"
    /\ pc' = "threw"
    /\ UNCHANGED <<stores, connected, ret, trackLocals, notesToDownload,
                   conflictLocals, edits>>
    /\ UNCHANGED sideVars

\* findLocalNotesMissingOnServer: the paths of the notes it returns.
CallFindLocalNotesMissingOnServer ==
    /\ pc = "call"
    /\ files' = [i \in DOMAIN findLocalNotesMissingOnServer(dir, remote) |->
                    findLocalNotesMissingOnServer(dir, remote)[i].path]
    /\ pc' = "called_missing"
    /\ UNCHANGED <<stores, connected, ret, idx, remoteIds, localIdToPath, creatableNote,
                   note, notesToDownload, conflictLocals, edits>>
    /\ UNCHANGED sideVars

CallFindRemoteNotesToDownload ==
    /\ pc = "called_missing"
    /\ notesToDownload' = findRemoteNotesToDownload(dir, remote)
    /\ pc' = "called_download"
    /\ UNCHANGED <<stores, connected, ret, trackLocals, conflictLocals, edits>>
    /\ UNCHANGED sideVars

\* findConflicts over the listing getAllNotes gave; a local note without
\* remote note ends the process.
CallFindConflicts ==
    /\ pc = "called_download"
    /\ remoteNotes' = remote
    /\ IF Unpaired(dir, remote) # {}
       THEN pc' = "exit1" /\ UNCHANGED conflicts
       ELSE pc' = "called_conflicts" /\ conflicts' = findConflicts(dir, remote)
    /\ UNCHANGED <<stores, connected, ret, trackLocals, notesToDownload, cIdx,
                   pausedSinceFetch, edits>>
    /\ UNCHANGED sideVars

\* (C17 mutant: the second call does not report again a conflict the first
\* call reported.)
CallFindConflictsAgainOnlyNew ==
    /\ pc = "called_conflicts"
    /\ conflicts' = SelectSeq(findConflicts(dir, remoteNotes),
                              LAMBDA c : c \notin Range(conflicts))
    /\ pc' = "called_again"
    /\ UNCHANGED <<stores, connected, ret, trackLocals, notesToDownload, remoteNotes,
                   cIdx, pausedSinceFetch, edits>>
    /\ UNCHANGED sideVars

\* findConflicts a second time, nothing having changed.
CallFindConflictsAgain ==
    /\ pc = "called_conflicts"
    /\ conflicts' = findConflicts(dir, remoteNotes)
    /\ pc' = "called_again"
    /\ UNCHANGED <<stores, connected, ret, trackLocals, notesToDownload, remoteNotes,
                   cIdx, pausedSinceFetch, edits>>
    /\ UNCHANGED sideVars

NextCalls ==
    \/ CallExtract
    \/ CallScan
    \/ CallScanThrows
    \/ CallFindLocalNotesMissingOnServer
    \/ CallFindRemoteNotesToDownload
    \/ CallFindConflicts
    \/ CallFindConflictsAgain

SpecCalls ==
    InitCalls /\ [][NextCalls]_vars

\* The ids of the three outputs, once the calls have been made.
MissingOut ==
    {IdAt(dir, files[i]) : i \in DOMAIN files}

DownloadOut ==
    {notesToDownload[i].id : i \in DOMAIN notesToDownload}

ConflictOut ==
    {conflicts[i].remote.id : i \in DOMAIN conflicts}

\* C16: the ids findLocalNotesMissingOnServer returns are those only local,
\* the ids findRemoteNotesToDownload returns are those only remote, the two are
\* disjoint, the ids of the conflicts are on both sides, and every id of
\* either snapshot is in exactly one of only-local, only-remote, both.
C16_ClassificationPartitions ==
    pc \in {"called_download", "called_conflicts", "called_again", "exit1"}
       => (/\ MissingOut = LocalIds(dir) \ RemoteIds(remote)
           /\ DownloadOut = RemoteIds(remote) \ LocalIds(dir)
           /\ MissingOut \cap DownloadOut = {}
           /\ ConflictOut \subseteq LocalIds(dir) \cap RemoteIds(remote)
           /\ ConflictOut \cap (MissingOut \cup DownloadOut) = {}
           /\ (LocalIds(dir) \cup RemoteIds(remote)) \ (MissingOut \cup DownloadOut)
                 = LocalIds(dir) \cap RemoteIds(remote))

\* C16 witness: the three calls were made on snapshots with an id only
\* local, an id only remote and an id on both sides.
C16_Witness ==
    /\ pc = "called_download"
    /\ MissingOut = {"7"}
    /\ DownloadOut = {"6"}
    /\ LocalIds(dir) \cap RemoteIds(remote) = {"5"}

TitleScenario(ks) ==
    /\ Len(dir) = 1
    /\ Len(remote) = 1
    /\ HasFrontmatter(dir[1].file)
    /\ DOMAIN dir[1].file.fm = ks
    /\ \A k \in ks \ {"title"} : dir[1].file.fm[k] # ""
    /\ dir[1].file.fm.title # <<>>
    /\ remote[1].id = dir[1].file.fm.id
    /\ remote[1].tags = <<>>
    /\ remote[1].title # dir[1].file.fm.title

Carries(file, k) ==
    HasFrontmatter(file) /\ Has(file.fm, k) /\ file.fm[k] # ""

\* The frontmatter of a file has a non-empty title.
CarriesTitle(file) ==
    HasFrontmatter(file) /\ Has(file.fm, "title") /\ file.fm.title # <<>>

\* C19, as claimed: extractNoteFromMarkdownFile returns a note exactly when
\* the frontmatter carries a non-empty id, a non-empty createdAt or date, and
\* a non-empty updatedAt.
C19_ResolvesIffIdCreatedOrDateUpdated ==
    [][CallExtract
          => ((note' # NullNote)
                <=> (/\ Carries(dir[1].file, "id")
                     /\ (Carries(dir[1].file, "createdAt") \/ Carries(dir[1].file, "date"))
                     /\ Carries(dir[1].file, "updatedAt")))]_vars

\* C19, amended: extractNoteFromMarkdownFile returns a note exactly when the
\* frontmatter carries a non-empty id, createdAt, updatedAt and title; date
\* does not stand in for createdAt, and the note's date is its createdAt
\* unless the frontmatter has a date of its own.
C19_ResolvesIffIdCreatedUpdatedTitle ==
    /\ [][CallExtract
             => ((note' # NullNote)
                   <=> (/\ Carries(dir[1].file, "id")
                        /\ Carries(dir[1].file, "createdAt")
                        /\ Carries(dir[1].file, "updatedAt")
                        /\ CarriesTitle(dir[1].file)))]_vars
    /\ [][(CallExtract /\ note' # NullNote)
             => (/\ note'.id = dir[1].file.fm.id
                 /\ note'.createdAt = dir[1].file.fm.createdAt
                 /\ note'.updatedAt = dir[1].file.fm.updatedAt
                 /\ note'.date = IF Has(dir[1].file.fm, "date")
                                  THEN dir[1].file.fm.date
                                  ELSE dir[1].file.fm.createdAt)]_vars

\* C19 witness: a file without date has been resolved, its date taken from
\* createdAt.
C19_Witness ==
    /\ pc = "extracted"
    /\ note # NullNote
    /\ ~Has(dir[1].file.fm, "date")
    /\ note.date = "d1"

\* C20, as claimed: a file whose frontmatter has id, createdAt and updatedAt
\* but no title resolves, with the stem of the file name as title.
C20_TitleFromStem ==
    [][(/\ CallExtract
        /\ Carries(dir[1].file, "id")
        /\ Carries(dir[1].file, "createdAt")
        /\ Carries(dir[1].file, "updatedAt")
        /\ ~Has(dir[1].file.fm, "title"))
          => (note' # NullNote /\ note'.title = Stem(dir[1].path))]_vars

\* C20, amended: a file whose frontmatter has id, createdAt and updatedAt
\* but no title does not resolve, and is not creatable either; the title of
\* a resolved note is always the title of the frontmatter.
C20_TitleRequired ==
    /\ [][(/\ CallExtract
           /\ Carries(dir[1].file, "id")
           /\ Carries(dir[1].file, "createdAt")
           /\ Carries(dir[1].file, "updatedAt")
           /\ ~Has(dir[1].file.fm, "title"))
             => (note' = NullNote /\ creatableNote' = NullNote)]_vars
    /\ [][(CallExtract /\ note' # NullNote)
             => note'.title = dir[1].file.fm.title]_vars

\* C20 witness: the extraction of a file with id, createdAt and updatedAt and
\* without title has returned null, the file name having a stem.
C20_Witness ==
    /\ pc = "extracted"
    /\ note = NullNote
    /\ Carries(dir[1].file, "id")
    /\ Carries(dir[1].file, "createdAt")
    /\ Carries(dir[1].file, "updatedAt")
    /\ ~Has(dir[1].file.fm, "title")
    /\ Stem(dir[1].path) # <<>>

\* The conflictType findConflicts reported for the file at a path, as a set;
\* empty when it reported no conflict for it.
FieldDiffs(cs, path) ==
    UNION {Range(c.conflictType) : c \in {c \in Range(cs) : c.local.path = path}}

\* C21: after findConflicts, for every matched pair, each field other than
\* id, title, date, tags and content that is present on the local note or on
\* the remote note and differs between them is named in the pair's fieldDiffs.
C21_RemainingFieldsOfEitherSide ==
    [][(CallFindConflicts /\ pc' = "called_conflicts")
          => \A e \in Range(scanNotesDirectory(dir)) :
                LET r == FindRemote(remote, e.note.id)
                IN  \A k \in (DOMAIN e.note \cup DOMAIN r)
                                \ {"id", "title", "date", "tags", "content"} :
                       Differs(r, e.note, k) => k \in FieldDiffs(conflicts', e.path)]_vars

\* The tags of a frontmatter or of a record as a sequence, absent and null
\* taken as the empty sequence.
TagSeq(f) ==
    IF Has(f, "tags") /\ f.tags # NullTags THEN f.tags ELSE <<>>

\* C22: after findConflicts, a matched pair has "tags" in its fieldDiffs
\* exactly when the tag sequences of the local file and of the remote record
\* differ element by element, an absent tags value counting as the empty
\* sequence on both sides; so the same tags in another order are a conflict.
C22_TagsOrderSensitive ==
    [][(CallFindConflicts /\ pc' = "called_conflicts")
          => \A e \in Range(scanNotesDirectory(dir)) :
                ("tags" \in FieldDiffs(conflicts', e.path))
                   <=> (TagSeq(FileAt(dir, e.path).fm)
                           # TagSeq(FindRemote(remote, e.note.id)))]_vars

\* C22 witness: a file with tags a, b and a record with tags b, a have been
\* compared and "tags" is reported.
C22_Witness ==
    /\ pc = "called_conflicts"
    /\ dir # <<>>
    /\ remote # <<>>
    /\ TagSeq(dir[1].file.fm) = <<"a", "b">>
    /\ TagSeq(remote[1]) = <<"b", "a">>
    /\ "tags" \in FieldDiffs(conflicts, dir[1].path)

\* ------------------------------------------------------------------ generateSafeFilename

\* The counter as `${counter}` prints it.
RECURSIVE Digits(_)
Digits(n) ==
    IF n < 10 THEN <<ToString(n)>>
    ELSE Digits(n \div 10) \o <<ToString(n % 10)>>

Untitled ==
    <<"u", "n", "t", "i", "t", "l", "e", "d">>

\* safeTitle of generateSafeFilename: the sanitized title, of 'untitled' for
\* an empty title.
SafeFilenameTitle(title) ==
    SafeTitle(IF title = <<>> THEN Untitled ELSE title)

\* safeTitle || noteId
BaseName(title, noteId) ==
    IF SafeFilenameTitle(title) # <<>> THEN SafeFilenameTitle(title) ELSE noteId

\* (C24 mutant: the counter is incremented before it is used.)
CounterNameSkipsOne(title, noteId, counter) ==
    BaseName(title, noteId) \o <<"_">> \o Digits(counter + 1) \o MdExt

\* `${safeTitle || noteId}_${counter++}.md`
CounterName(title, noteId, counter) ==
    BaseName(title, noteId) \o <<"_">> \o Digits(counter) \o MdExt

\* existingFilenamesLowercase: the lower-cased names of the files of the
\* target directory.
existingFilenamesLowercase(d) ==
    {ToLowerCase(path) : path \in Paths(d)}

\* (C23 mutant: the candidate is looked up as it is, not lower-cased.)
CollidesCaseSensitive(existing, name) ==
    name \in existing

\* existingFilenamesLowercase.has(finalFileName.toLowerCase())
Collides(existing, name) ==
    ToLowerCase(name) \in existing

\* Titles: one that sanitizes to my-note, the empty one, one that sanitizes
\* to nothing.
NameTitles ==
    {<<"M", "y", " ", "N", "o", "t", "e">>, <<>>, <<"!">>}

\* Ids, as text: the fallback of a title that sanitizes to nothing.
NameIds ==
    {<<"A", "b">>, <<"c">>}

\* The file names the target directory draws from, in readdir order; one of
\* them is in upper case on disk.
NamePool ==
    <<<<"m", "y", "-", "n", "o", "t", "e", ".", "m", "d">>,
      <<"M", "y", "-", "N", "o", "t", "e", "_", "1", ".", "m", "d">>,
      <<"m", "y", "-", "n", "o", "t", "e", "_", "2", ".", "m", "d">>,
      <<"u", "n", "t", "i", "t", "l", "e", "d", ".", "m", "d">>,
      <<"a", "b", ".", "m", "d">>,
      <<"a", "b", "_", "1", ".", "m", "d">>,
      <<"x", ".", "m", "d">>>>

NameDirs ==
    {SelectSeq([i \in DOMAIN NamePool |-> Entry(NamePool[i], MkFile("none", EmptyFm, <<>>))],
               LAMBDA e : e.path \in sub) : sub \in SUBSET Range(NamePool)}

\* generateSafeFilename(note.title, note.id, existingFilenamesLowercase(dir))
\* is about to be called; files holds finalFileName and idx the counter once
\* the call runs.
InitNames ==
    /\ dir \in NameDirs
    /\ head = dir
    /\ remote = <<>>
    /\ created = 0
    /\ connected = TRUE
    /\ pc = "names_call"
    /\ ret = "names_call"
    /\ files = <<>>
    /\ idx = 0
    /\ remoteIds = {}
    /\ localIdToPath = EmptyMap
    /\ creatableNote = NullNote
    /\ note \in {[title |-> t, id |-> i] : t \in NameTitles, i \in NameIds}
    /\ notesToDownload = <<>>
    /\ remoteNotes = <<>>
    /\ conflicts = <<>>
    /\ cIdx = 0
    /\ edits = 0
    /\ pausedSinceFetch = FALSE
    /\ cacheFs = NoCache
    /\ getNotesResult = NotReturned
    /\ fileContent = <<>>
    /\ decoded = NotDecoded
    /\ now = 0
    /\ callee = NoCallee
    /\ service = Null
    /\ builds = 0
    /\ callers = NoCallers
    /\ run = "first"

\* let finalFileName = baseFileName; let counter = 1
SafeNameStart ==
    /\ pc = "names_call"
    /\ files' = <<BaseName(note.title, note.id) \o MdExt>>
    /\ idx' = 1
    /\ pc' = "names_loop"
    /\ UNCHANGED <<stores, connected, ret, remoteIds, localIdToPath, creatableNote,
                   note, notesToDownload, conflictLocals, edits>>
    /\ UNCHANGED sideVars

\* One turn of the while loop: the name exists, the next one is tried.
SafeNameCollision ==
    /\ pc = "names_loop"
    /\ Collides(existingFilenamesLowercase(dir), files[1])
    /\ files' = <<CounterName(note.title, note.id, idx)>>
    /\ idx' = idx + 1
    /\ UNCHANGED <<stores, connected, pc, ret, remoteIds, localIdToPath, creatableNote,
                   note, notesToDownload, conflictLocals, edits>>
    /\ UNCHANGED sideVars

\* The loop ends: return finalFileName.
SafeNameReturn ==
    /\ pc = "names_loop"
    /\ ~Collides(existingFilenamesLowercase(dir), files[1])
    /\ pc' = "names_returned"
    /\ UNCHANGED <<stores, connected, ret, trackLocals, notesToDownload,
                   conflictLocals, edits>>
    /\ UNCHANGED sideVars

NextNames ==
    \/ SafeNameStart
    \/ SafeNameCollision
    \/ SafeNameReturn

\* The call runs on: a step that can be taken is taken.
SpecNames ==
    InitNames /\ [][NextNames]_vars /\ WF_vars(NextNames)

\* The name <base>_<n>.md.
NumberedName(base, n) ==
    base \o <<"_">> \o Digits(n) \o MdExt

\* The name with counter n is free.
FreeCounter(n) ==
    ToLowerCase(NumberedName(BaseName(note.title, note.id), n))
        \notin existingFilenamesLowercase(dir)

\* C23: generateSafeFilename(t, id, S) terminates, and the lower-cased form
\* of the name it returns is not a member of S.
C23_SafeFilenameFree ==
    /\ <>(pc = "names_returned")
    /\ [](pc = "names_returned"
            => ToLowerCase(files[1]) \notin existingFilenamesLowercase(dir))

\* C23 witness: the call has returned after a collision, with a name taken
\* from the id and holding an upper-case letter.
C23_Witness ==
    /\ pc = "names_returned"
    /\ idx > 1
    /\ files[1] # ToLowerCase(files[1])

\* C24: the result is <base>.md when that name is free, else <base>_<n>.md
\* for the smallest n >= 1 whose name is free; with my-note.md and
\* my-note_1.md taken, title "My Note" gives my-note_2.md; with nothing
\* taken the result is <base>.md, base depending on title and id alone.
C24_SmallestFreeCounter ==
    [](pc = "names_returned"
         => LET base == BaseName(note.title, note.id)
                existing == existingFilenamesLowercase(dir)
            IN  /\ ToLowerCase(base \o MdExt) \notin existing => files[1] = base \o MdExt
                /\ ToLowerCase(base \o MdExt) \in existing
                      => \E n \in 1..(Cardinality(existing) + 1) :
                            /\ files[1] = NumberedName(base, n)
                            /\ FreeCounter(n)
                            /\ \A m \in 1..(n - 1) : ~FreeCounter(m)
                /\ (/\ note.title = <<"M", "y", " ", "N", "o", "t", "e">>
                    /\ existing \cap {<<"m", "y", "-", "n", "o", "t", "e", ".", "m", "d">>,
                                      <<"m", "y", "-", "n", "o", "t", "e", "_", "1", ".", "m", "d">>,
                                      <<"m", "y", "-", "n", "o", "t", "e", "_", "2", ".", "m", "d">>}
                          = {<<"m", "y", "-", "n", "o", "t", "e", ".", "m", "d">>,
                             <<"m", "y", "-", "n", "o", "t", "e", "_", "1", ".", "m", "d">>})
                      => files[1] = <<"m", "y", "-", "n", "o", "t", "e", "_", "2", ".", "m", "d">>
                /\ dir = <<>> => files[1] = base \o MdExt)

\* C24 witness: with my-note.md and my-note_1.md taken, the call for title
\* "My Note" has returned my-note_2.md.
C24_Witness ==
    /\ pc = "names_returned"
    /\ note.title = <<"M", "y", " ", "N", "o", "t", "e">>
    /\ existingFilenamesLowercase(dir)
          = {<<"m", "y", "-", "n", "o", "t", "e", ".", "m", "d">>, <<"m", "y", "-", "n", "o", "t", "e", "_", "1", ".", "m", "d">>}
    /\ files[1] = <<"m", "y", "-", "n", "o", "t", "e", "_", "2", ".", "m", "d">>

\* C28: extractCreatableNoteFromMarkdownFile returns none for every file
\* whose frontmatter has an id; in a note it returns, title is the title of
\* the frontmatter or else the stem of the file name, date is the date of
\* the frontmatter or else the file's modification time, tags are those of
\* the frontmatter or else empty, and content is the text after the
\* frontmatter; frontmatter {title: "Draft"} gives tags [] and the
\* modification time as date.
C28_CreatableOnlyWithoutId ==
    [][CallExtract
          => LET f == dir[1].file
                 fm == IF f.kind = "map" THEN f.fm ELSE EmptyFm
                 c == creatableNote'
             IN  /\ Carries(f, "id") => c = NullNote
                 /\ c # NullNote
                       => /\ ~Carries(f, "id")
                          /\ c.title = (IF Has(fm, "title") THEN fm.title ELSE Stem(dir[1].path))
                          /\ c.date = (IF Has(fm, "date") THEN fm.date ELSE MTime(dir[1].path))
                          /\ c.tags = TagSeq(fm)
                          /\ c.content = f.rest
                          /\ DOMAIN c = {"title", "content", "date", "tags"}
                 /\ (f.kind = "map" /\ fm = [title |-> Draft])
                       => (c # NullNote /\ c.title = Draft /\ c.tags = <<>>
                             /\ c.date = MTime(dir[1].path))]_vars

\* C28 witness: the file with frontmatter {title: "Draft"} has been turned
\* into a creatable note.
C28_Witness ==
    /\ pc = "extracted"
    /\ dir[1].file.kind = "map"
    /\ dir[1].file.fm = [title |-> Draft]
    /\ creatableNote # NullNote
    /\ creatableNote.tags = <<>>

\* The name ends in .md, whatever the case of its letters.
HasMdSuffix(name) ==
    /\ Len(name) >= 3
    /\ name[Len(name) - 2] = "."
    /\ name[Len(name) - 1] \in {"m", "M"}
    /\ name[Len(name)] \in {"d", "D"}

Undefined ==
    <<[isUndefined |-> TRUE]>>

\* Listings a cache file can hold.
CacheLists ==
    {<<>>, <<[id |-> "c", title |-> <<"C">>]>>}

\* The cache file: missing; there but unreadable; no JSON; the JSON null; an
\* object (see CacheObject).
CacheFiles ==
    {[kind |-> k] : k \in {"missing", "unreadable", "garbage", "null"}}
       \cup {CacheObject(t, f, n, l) : t \in BOOLEAN, f \in BOOLEAN, n \in BOOLEAN,
                                       l \in CacheLists}

CacheStates ==
    {c \in {MkCache(d, w, f) : d \in {"exists", "creatable", "uncreatable"},
                                w \in BOOLEAN, f \in CacheFiles} :
        c.dir # "exists" => c.file.kind = "missing"}

\* getNotes is about to be called.
InitCache ==
    /\ dir = <<>>
    /\ head = <<>>
    /\ remote \in InitRemotes
    /\ created = 0
    /\ connected = TRUE
    /\ pc = "cache_call"
    /\ ret = "cache_call"
    /\ files = <<>>
    /\ idx = 0
    /\ remoteIds = {}
    /\ localIdToPath = EmptyMap
    /\ creatableNote = NullNote
    /\ note = NullNote
    /\ notesToDownload = <<>>
    /\ remoteNotes = <<>>
    /\ conflicts = <<>>
    /\ cIdx = 0
    /\ edits = 0
    /\ pausedSinceFetch = FALSE
    /\ cacheFs \in CacheStates
    /\ getNotesResult = NotReturned
    /\ fileContent = <<>>
    /\ decoded = NotDecoded
    /\ now = 0
    /\ callee = NoCallee
    /\ service = Null
    /\ builds = 0
    /\ callers = NoCallers
    /\ run = "first"

\* await ensureCacheDir(): mkdir when CACHE_DIR is missing; its failure is
\* not caught.
EnsureCacheDir ==
    /\ pc = "cache_call"
    /\ IF cacheFs.dir = "uncreatable"
       THEN pc' = "threw" /\ UNCHANGED cacheFs
       ELSE pc' = "cache_read" /\ cacheFs' = [cacheFs EXCEPT !.dir = "exists"]
    /\ UNCHANGED <<stores, connected, ret, trackLocals, notesToDownload,
                   conflictLocals, edits, getNotesResult>>
    /\ UNCHANGED <<codecVars, ttlVars, serviceVars, run>>

\* Date.now() - cache.timestamp <= CACHE_TTL for the parsed cache file.
WithinTtl(file) ==
    file.kind = "object" /\ file.hasTimestamp /\ file.fresh

\* The cache file is there, is read and parsed, and is within its TTL:
\* return cache.notes.
CacheHit ==
    /\ pc = "cache_read"
    /\ WithinTtl(cacheFs.file)
    /\ getNotesResult' = [returned |-> TRUE,
                          notes |-> IF cacheFs.file.hasNotes THEN cacheFs.file.notes
                                    ELSE Undefined]
    /\ pc' = "cache_returned"
    /\ UNCHANGED <<stores, connected, ret, trackLocals, notesToDownload,
                   conflictLocals, edits, cacheFs>>
    /\ UNCHANGED <<codecVars, ttlVars, serviceVars, run>>

\* No cache file, or reading or parsing it throws (caught), or it is older
\* than the TTL: notes = await tt.notes.getAllNotesMetadata().
CacheMiss ==
    /\ pc = "cache_read"
    /\ ~WithinTtl(cacheFs.file)
    /\ remoteNotes' = getAllNotesMetadata(remote)
    /\ pc' = "cache_write"
    /\ UNCHANGED <<stores, connected, ret, trackLocals, notesToDownload, conflicts,
                   cIdx, pausedSinceFetch, edits, cacheVars>>
    /\ UNCHANGED <<codecVars, ttlVars, serviceVars, run>>

\* writeFile of the new cache, its failure caught; return notes.
CacheWrite ==
    /\ pc = "cache_write"
    /\ cacheFs' = IF cacheFs.writable
                  THEN [cacheFs EXCEPT !.file = CacheObject(TRUE, TRUE, TRUE, remoteNotes)]
                  ELSE cacheFs
    /\ getNotesResult' = [returned |-> TRUE, notes |-> remoteNotes]
    /\ pc' = "cache_returned"
    /\ UNCHANGED <<stores, connected, ret, trackLocals, notesToDownload,
                   conflictLocals, edits>>
    /\ UNCHANGED <<codecVars, ttlVars, serviceVars, run>>

NextCache ==
    \/ EnsureCacheDir
    \/ CacheHit
    \/ CacheMiss
    \/ CacheWrite

SpecCache ==
    InitCache /\ [][NextCache]_vars

\* C30: whatever the cache is (missing, unreadable, no valid JSON, expired,
\* unwritable), getNotes ends without error, and what it returns is the
\* metadata listing of the remote store unless it is the list of a cache
\* that is still valid.
C30_CacheDisposable ==
    /\ pc # "threw"
    /\ pc = "cache_returned"
          => \/ getNotesResult.notes = getAllNotesMetadata(remote)
             \/ \E l \in CacheLists : getNotesResult.notes = l

\* ------------------------------------------------------------------ the codec, as text

\* In this part a string is the tuple of its characters, the line feed being
\* one of them, and a line of a file is a tuple of tokens: the key of a YAML
\* entry is one token, everything else one token per character.

Newline ==
    "\n"

\* s.split('\n')
RECURSIVE SplitLines(_)
SplitLines(s) ==
    IF \A i \in DOMAIN s : s[i] # Newline THEN <<s>>
    ELSE LET i == CHOOSE i \in DOMAIN s :
                     s[i] = Newline /\ \A j \in 1..(i - 1) : s[j] # Newline
         IN  <<SubSeq(s, 1, i - 1)>> \o SplitLines(SubSeq(s, i + 1, Len(s)))

\* lines.join('\n')
RECURSIVE JoinNewline(_)
JoinNewline(lines) ==
    IF lines = <<>> THEN <<>>
    ELSE IF Len(lines) = 1 THEN lines[1]
    ELSE lines[1] \o <<Newline>> \o JoinNewline(Tail(lines))

TrueWord ==
    <<"t", "r", "u", "e">>

FalseWord ==
    <<"f", "a", "l", "s", "e">>

NullWord ==
    <<"n", "u", "l", "l">>

DigitChars ==
    {"0", "1", "2", "3", "4", "5", "6", "7", "8", "9"}

\* The values of YAML, each with its type.
YStr(s) ==
    [t |-> "str", v |-> s]

YBool(b) ==
    [t |-> "bool", v |-> b]

YSeq(items) ==
    [t |-> "seq", v |-> items]

YNum(s) ==
    [t |-> "num", v |-> s]

YNull ==
    [t |-> "null", v |-> <<>>]

YError ==
    [t |-> "error", v |-> <<>>]

\* yaml.dump of a string on one line: plain, or in single quotes when the
\* plain text would read as something else (empty, a word of YAML, a number,
\* an indicator in front, a blank at an end).
NeedsQuote(s) ==
    \/ s = <<>>
    \/ s \in {TrueWord, FalseWord, NullWord}
    \/ \A i \in DOMAIN s : s[i] \in DigitChars
    \/ s[1] \in {"-", "'", "[", "]", "{", "}", " ", "|", ":", "#", "&", "*", "!", ">", "%", "@"}
    \/ s[Len(s)] = " "

DumpScalar(s) ==
    IF NeedsQuote(s) THEN <<"'">> \o s \o <<"'">> ELSE s

\* yaml.dump of one string-valued entry: on the line of its key, or, for a
\* string of several lines, as a literal block with its lines indented.
DumpString(k, s) ==
    IF Newline \in Range(s)
    THEN << <<k, ":", " ", "|", "-">> >>
            \o [i \in DOMAIN SplitLines(s) |->
                   IF SplitLines(s)[i] = <<>> THEN <<>>
                   ELSE <<" ", " ">> \o SplitLines(s)[i]]
    ELSE << <<k, ":", " ">> \o DumpScalar(s) >>

\* yaml.dump of one entry of a note.
DumpField(k, v) ==
    IF k = "published"
    THEN << <<k, ":", " ">> \o (IF v THEN TrueWord ELSE FalseWord) >>
    ELSE IF k = "tags"
    THEN IF v = <<>> THEN << <<k, ":", " ", "[", "]">> >>
         ELSE << <<k, ":">> >>
                 \o [i \in DOMAIN v |-> <<" ", " ", "-", " ">> \o DumpScalar(v[i])]
    ELSE DumpString(k, v)

RECURSIVE DumpKeys(_, _)
DumpKeys(keys, m) ==
    IF keys = <<>> THEN <<>>
    ELSE DumpField(keys[1], m[keys[1]]) \o DumpKeys(Tail(keys), m)

\* yaml.dump(allButContent, {skipInvalid: true}), as lines.
YamlDump(m) ==
    IF DOMAIN m = {} THEN << <<"{", "}">> >>
    ELSE DumpKeys(SelectSeq(KeyOrder, LAMBDA k : Has(m, k)), m)

RECURSIVE TrimStart(_)
TrimStart(s) ==
    IF s # <<>> /\ s[1] = " " THEN TrimStart(Tail(s)) ELSE s

RECURSIVE TrimEnd(_)
TrimEnd(s) ==
    IF s # <<>> /\ s[Len(s)] = " " THEN TrimEnd(SubSeq(s, 1, Len(s) - 1)) ELSE s

\* fmString.trim(), on the lines of fmString.
TrimText(lines) ==
    [i \in DOMAIN lines |->
        IF i = 1 /\ i = Len(lines) THEN Trim(lines[i])
        ELSE IF i = 1 THEN TrimStart(lines[i])
        ELSE IF i = Len(lines) THEN TrimEnd(lines[i])
        ELSE lines[i]]

\* formatNoteAsMarkdown: ['---', fmString.trim(), '---', note.content].join('\n'),
\* as lines; note.content is given as its lines.
formatNoteAsMarkdownText(n) ==
    LET kept == [k \in DOMAIN n \ {"_id"} |-> n[k]]
    IN  <<Delim>> \o TrimText(YamlDump(getPrintableNoteContent(kept)))
            \o <<Delim>> \o kept.content

IsBlank(line) ==
    Trim(line) = <<>>

\* The line opens an entry of a block mapping: key, colon, then blank or end.
IsEntry(line) ==
    /\ Len(line) >= 2
    /\ line[2] = ":"
    /\ line[1] \notin {" ", "-", "'", "[", "]", "{", "}", ":"}
    /\ (Len(line) = 2 \/ line[3] = " ")

\* The line opens an entry of a block sequence.
IsItem(line) ==
    /\ Len(line) >= 2
    /\ line[1] = "-"
    /\ line[2] = " "

IsIndented(line) ==
    /\ Len(line) >= 3
    /\ line[1] = " "
    /\ line[2] = " "
    /\ ~IsBlank(line)

IsIndentedItem(line) ==
    /\ IsIndented(line)
    /\ IsItem(SubSeq(line, 3, Len(line)))

\* yaml.load of a scalar or flow collection on one line.
ParseScalar(raw) ==
    LET s == Trim(raw)
    IN  IF s = <<>> THEN YNull
        ELSE IF Len(s) >= 2 /\ s[1] = "'" /\ s[Len(s)] = "'"
        THEN YStr(SubSeq(s, 2, Len(s) - 1))
        ELSE IF s = TrueWord THEN YBool(TRUE)
        ELSE IF s = FalseWord THEN YBool(FALSE)
        ELSE IF s = NullWord THEN YNull
        ELSE IF s = <<"[", "]">> THEN YSeq(<<>>)
        ELSE IF s[1] \in {"'", "[", "]", "{", "}", "|", "&", "*", "!", ">", "%", "@"} THEN YError
        ELSE IF \A i \in DOMAIN s : s[i] \in DigitChars THEN YNum(s)
        ELSE YStr(s)

\* How many lines at the front of lines are indented lines of a block.
RECURSIVE LeadIndented(_)
LeadIndented(lines) ==
    IF lines # <<>> /\ IsIndented(lines[1]) THEN 1 + LeadIndented(Tail(lines)) ELSE 0

\* yaml.load of the entries of a block mapping, one after the other; acc is
\* the mapping read so far.
RECURSIVE ParseEntries(_, _)
ParseEntries(lines, acc) ==
    IF lines = <<>> THEN [kind |-> "mapping", fm |-> acc]
    ELSE IF IsBlank(lines[1]) THEN ParseEntries(Tail(lines), acc)
    ELSE IF ~IsEntry(lines[1]) THEN [kind |-> "error"]
    ELSE LET k == lines[1][1]
             rest == SubSeq(lines[1], 4, Len(lines[1]))
             more == Tail(lines)
             n == LeadIndented(more)
             block == SubSeq(more, 1, n)
             after == SubSeq(more, n + 1, Len(more))
             value ==
                 IF Trim(rest) = <<"|", "-">>
                 THEN YStr(JoinNewline([i \in DOMAIN block |->
                                           SubSeq(block[i], 3, Len(block[i]))]))
                 ELSE IF Trim(rest) = <<>>
                 THEN IF n = 0 THEN YNull
                      ELSE IF \E i \in DOMAIN block :
                                 \/ ~IsIndentedItem(block[i])
                                 \/ ParseScalar(SubSeq(block[i], 5, Len(block[i]))).t # "str"
                      THEN YError
                      ELSE YSeq([i \in DOMAIN block |->
                                    ParseScalar(SubSeq(block[i], 5, Len(block[i]))).v])
                 ELSE IF n > 0 THEN YError
                 ELSE ParseScalar(rest)
         IN  IF Has(acc, k) \/ value.t = "error" THEN [kind |-> "error"]
             ELSE ParseEntries(after, (k :> value) @@ acc)

\* yaml.load(frontmatterRaw): a mapping, a sequence, a scalar, null, nothing
\* (undefined), or a YAMLException.
YamlLoad(lines) ==
    LET nb == SelectSeq(lines, LAMBDA l : ~IsBlank(l))
    IN  IF nb = <<>> THEN [kind |-> "empty"]
        ELSE IF IsItem(nb[1])
        THEN IF \A i \in DOMAIN nb :
                   IsItem(nb[i]) /\ ParseScalar(SubSeq(nb[i], 3, Len(nb[i]))).t # "error"
             THEN [kind |-> "sequence",
                   items |-> [i \in DOMAIN nb |-> ParseScalar(SubSeq(nb[i], 3, Len(nb[i])))]]
             ELSE [kind |-> "error"]
        ELSE IF IsEntry(nb[1]) THEN ParseEntries(lines, EmptyFm)
        ELSE IF nb = << <<"{", "}">> >> THEN [kind |-> "mapping", fm |-> EmptyFm]
        ELSE IF \E i \in DOMAIN nb :
                   IsEntry(nb[i]) \/ ParseScalar(nb[i]).t \in {"error", "seq"}
        THEN IF nb = << <<"[", "]">> >> THEN [kind |-> "sequence", items |-> <<>>]
             ELSE [kind |-> "error"]
        ELSE IF Len(nb) = 1 /\ ParseScalar(nb[1]).t = "null" THEN [kind |-> "null"]
        ELSE [kind |-> "scalar"]

\* The result null of extractFrontmatterFromMarkdownFile.
NoFrontmatter ==
    [kind |-> "none"]

\* extractFrontmatterFromMarkdownFile on the lines of file.content: what
\* yaml.load gives when typeof says 'object' (a mapping, a sequence; null is
\* the result null again), null otherwise and when yaml.load throws.
extractFrontmatterText(lines) ==
    IF FmEndIndex(lines) = 0 THEN NoFrontmatter
    ELSE LET parsedYaml == YamlLoad(SubSeq(lines, 2, FmEndIndex(lines) - 1))
         IN  IF parsedYaml.kind \in {"mapping", "sequence"} THEN parsedYaml
             ELSE NoFrontmatter

\* Notes for the codec: the title on one line, empty, a word of YAML, the
\* delimiter, or of three lines with the delimiter in the middle; tags; a
\* content that opens with the delimiter or not.
CodecNotes ==
    {[id |-> <<"5">>, title |-> t, content |-> c, tags |-> g, published |-> b] :
        t \in {<<"a">>, <<>>, TrueWord, Delim, <<"a", Newline, "-", "-", "-", Newline, "b">>,
               <<"a", Newline, "b">>},
        c \in {<<Line("x")>>, <<Delim, Line("x")>>, << <<>> >>},
        g \in {<<>>, <<Line("a"), Line("b")>>, <<Delim>>},
        b \in BOOLEAN}

\* Lines a file is made of: the delimiter, alone and between blanks; an empty
\* line; an entry of a mapping; an entry of a sequence; plain text; an
\* unclosed bracket; the word null.
CodecLines ==
    {Delim, <<" ", "-", "-", "-", " ">>, <<>>, <<"title", ":", " ", "a">>,
     <<"-", " ", "a">>, <<"h", "i">>, <<"[">>, NullWord}

\* How many lines the files given to the decoder have at most.
MaxTextLines ==
    4

RECURSIVE TextsUpTo(_)
TextsUpTo(n) ==
    IF n = 1 THEN {<<l>> : l \in CodecLines}
    ELSE TextsUpTo(n - 1)
            \cup {Append(t, l) : t \in {t \in TextsUpTo(n - 1) : Len(t) = n - 1},
                                 l \in CodecLines}

\* Either a note is about to be written and read back (ret = "codec_encode"),
\* or a file is about to be read.
InitCodec ==
    /\ dir = <<>>
    /\ head = <<>>
    /\ remote = <<>>
    /\ created = 0
    /\ connected = TRUE
    /\ files = <<>>
    /\ idx = 0
    /\ remoteIds = {}
    /\ localIdToPath = EmptyMap
    /\ creatableNote = NullNote
    /\ notesToDownload = <<>>
    /\ remoteNotes = <<>>
    /\ conflicts = <<>>
    /\ cIdx = 0
    /\ edits = 0
    /\ pausedSinceFetch = FALSE
    /\ cacheFs = NoCache
    /\ getNotesResult = NotReturned
    /\ decoded = NotDecoded
    /\ now = 0
    /\ callee = NoCallee
    /\ service = Null
    /\ builds = 0
    /\ callers = NoCallers
    /\ run = "first"
    /\ \/ /\ note \in CodecNotes
          /\ fileContent = <<>>
          /\ pc = "codec_encode"
          /\ ret = "codec_encode"
       \/ /\ note = NullNote
          /\ fileContent \in TextsUpTo(MaxTextLines)
          /\ pc = "codec_decode"
          /\ ret = "codec_decode"

\* writeFile(filePath, formatNoteAsMarkdown(note)) and readFile of the same.
CodecEncode ==
    /\ pc = "codec_encode"
    /\ fileContent' = formatNoteAsMarkdownText(note)
    /\ pc' = "codec_decode"
    /\ UNCHANGED <<stores, connected, ret, trackLocals, notesToDownload,
                   conflictLocals, edits, cacheVars, decoded, ttlVars, serviceVars, run>>

\* extractFrontmatterFromMarkdownFile and removeFrontmatterFromMarkdownFile
\* of the file.
CodecDecode ==
    /\ pc = "codec_decode"
    /\ decoded' = [frontmatter |-> extractFrontmatterText(fileContent),
                   body |-> RemoveFrontmatterLines(fileContent)]
    /\ pc' = "codec_decoded"
    /\ UNCHANGED <<stores, connected, ret, trackLocals, notesToDownload,
                   conflictLocals, edits, cacheVars, fileContent, ttlVars, serviceVars, run>>

NextCodec ==
    \/ CodecEncode
    \/ CodecDecode

SpecCodec ==
    InitCodec /\ [][NextCodec]_vars

\* The fields of a note but its content, as values of YAML.
TypedFields(n) ==
    [k \in DOMAIN n \ {"content"} |->
        IF k = "published" THEN YBool(n[k])
        ELSE IF k = "tags" THEN YSeq(n[k])
        ELSE YStr(n[k])]

\* C25: for every note n, decoding formatNoteAsMarkdown(n) gives a body
\* equal to n.content and a frontmatter mapping whose fields are exactly the
\* fields of n without the content.
C25_CodecRoundTrip ==
    (pc = "codec_decoded" /\ ret = "codec_encode")
       => /\ decoded.body = note.content
          /\ decoded.frontmatter.kind = "mapping"
          /\ decoded.frontmatter.fm = TypedFields(note)

\* The text has no delimited block: its first line does not trim to the
\* delimiter, or no later line does.
NoBlock(lines) ==
    \/ Trim(lines[1]) # Delim
    \/ \A i \in 2..Len(lines) : Trim(lines[i]) # Delim

\* C26: decoding a text whose first line does not trim to --- or that has
\* no later line trimming to --- gives no frontmatter and the whole text as
\* body.
C26_NoClosingDelimiter ==
    [][(CodecDecode /\ NoBlock(fileContent))
          => (/\ decoded'.frontmatter = NoFrontmatter
              /\ decoded'.body = fileContent)]_vars

\* C26 witness: a text of several lines that opens with the delimiter and
\* never closes it has been decoded.
C26_Witness ==
    /\ pc = "codec_decoded"
    /\ Len(fileContent) >= 3
    /\ Trim(fileContent[1]) = Delim
    /\ NoBlock(fileContent)
    /\ decoded.frontmatter = NoFrontmatter
    /\ decoded.body = fileContent

\* The lines between the opening and the closing delimiter.
BlockOf(lines) ==
    SubSeq(lines, 2, FmEndIndex(lines) - 1)

\* C27: decoding a text whose delimited block parses to something that is
\* no mapping (a scalar, a sequence, null, nothing) or does not parse gives
\* no frontmatter; a frontmatter is returned only for a mapping.
C27_OnlyMappings ==
    [][(CodecDecode /\ ~NoBlock(fileContent))
          => /\ YamlLoad(BlockOf(fileContent)).kind # "mapping"
                   => decoded'.frontmatter = NoFrontmatter
             /\ decoded'.frontmatter # NoFrontmatter
                   => decoded'.frontmatter.kind = "mapping"]_vars

\* ------------------------------------------------------------------ the run as a whole

\* The phase of syncNotes a position belongs to: handleGitChanges (1),
\* ensureAllFilesAreTracked (2), the download (3), handleConflict's own
\* handleGitChanges (4), the listing and the overwrites (5), the review and
\* the push loop (6), disconnect and the end (7).
PhaseOf(p, r) ==
    CASE p \in {"git_check", "git_prompt"} /\ r = "track_start" -> 1
      [] p \in {"track_start", "track_file", "track_confirm_create", "track_check_remote",
                "track_missing_prompt", "track_check_dup", "track_dup_prompt"} -> 2
      [] p \in {"download_start", "download_confirm"} -> 3
      [] p \in {"git_check", "git_prompt"} /\ r = "conflict_start" -> 4
      [] p = "conflict_start" -> 5
      [] p \in {"review_check", "review_prompt", "review_recompute", "push_prompt"} -> 6
      [] OTHER -> 7

\* A step of the run that calls the remote store.
RemoteCall ==
    \/ TrackStart
    \/ TrackCreate
    \/ TrackCreateFails
    \/ TrackRecreate
    \/ TrackRecreateFails
    \/ DownloadStart
    \/ ConflictSurface
    \/ PushConfirm
    \/ PushFails

\* C31: the phases of a run follow each other in the order git check,
\* tracking pass, download, (git check of handleConflict,) overwrite of the
\* conflicting files, review with push loop, disconnect; a phase is entered
\* from the one before it or the process ends.  The overwrites and the pushes
\* happen only after the tracking loop and the download are over.  The
\* connection is closed by one step, from the end of handleConflict; no remote
\* call follows it, and a run that ended early keeps it open.
C31_PhaseOrder ==
    /\ [][pc' \notin Ended
             => PhaseOf(pc', ret') \in {PhaseOf(pc, ret), PhaseOf(pc, ret) + 1}]_vars
    /\ [][(PhaseOf(pc, ret) = 2 /\ PhaseOf(pc', ret') = 3)
             => (pc = "track_file" /\ idx > Len(files))]_vars
    /\ [][(ConflictSurface \/ PushConfirm)
             => (PhaseOf(pc, ret) \in {5, 6} /\ ret = "conflict_start"
                   /\ files = <<>> /\ notesToDownload = <<>>)]_vars
    /\ [][connected' # connected
             => (pc = "disconnect" /\ pc' = "done" /\ connected /\ ~connected')]_vars
    /\ [][RemoteCall => (connected /\ connected')]_vars
    /\ [][pc = "done" => UNCHANGED vars]_vars
    /\ [][pc' \in Ended => connected']_vars

\* C31 witness: a run that created a record in the tracking pass, pushed the
\* title of o.md in the push loop and has disconnected.
C31_Witness ==
    /\ pc = "done"
    /\ ~connected
    /\ created > 0
    /\ \E i \in DOMAIN remote : remote[i].id = "1" /\ remote[i].title = T("O")

\* The paths a step removes from the notes directory.
Removed ==
    Paths(dir) \ Paths(dir')

\* The step is the human's, in lazygit or in an editor, or another client's.
Outside ==
    GitLazygit \/ ReviewLazygit \/ HumanEdit \/ RemoteEditedElsewhere

\* C32: every step of the run that creates a remote record, updates one or
\* removes a local file is the affirmative answer to the prompt the run is
\* waiting at, does that one thing to the subject of the prompt, and nothing
\* else to the records and files: a create adds one record with the title the
\* prompt showed (and saves it); an update changes the record of the conflict
\* asked about and no file; a removal takes away the file of the pass, or the
\* one path of the two the duplicate prompt offered, and no record.
C32_MutationsConfirmed ==
    /\ [][created' # created
             => (/\ pc \in {"track_confirm_create", "track_missing_prompt"}
                 /\ created' = created + 1
                 /\ Len(remote') = Len(remote) + 1
                 /\ SubSeq(remote', 1, Len(remote)) = remote
                 /\ remote'[Len(remote')].title
                       = (IF pc = "track_confirm_create" THEN creatableNote.title
                                                         ELSE note.title)
                 /\ Removed = {})]_vars
    /\ [][(remote' # remote /\ created' = created /\ ~Outside)
             => (/\ pc = "push_prompt"
                 /\ cIdx \in DOMAIN conflicts
                 /\ Len(remote') = Len(remote)
                 /\ \A i \in DOMAIN remote :
                       remote[i].id # conflicts[cIdx].remote.id => remote'[i] = remote[i]
                 /\ dir' = dir)]_vars
    /\ [][(Removed # {} /\ ~Outside)
             => (/\ \/ pc = "track_missing_prompt" /\ Removed = {filePath}
                    \/ /\ pc = "track_dup_prompt"
                       /\ \E p \in {filePath, localIdToPath[note.id]} : Removed = {p}
                 /\ \A e \in Range(dir) : e.path \notin Removed => e \in Range(dir')
                 /\ Paths(dir') \subseteq Paths(dir)
                 /\ UNCHANGED <<remote, created>>)]_vars
    /\ [][(TrackDeclineCreate \/ TrackMissingExit \/ TrackDupExit \/ PushDecline)
             => UNCHANGED <<dir, remote, created>>]_vars

\* C32 witness: in one tracking pass a record was created on confirmation and
\* a listed file was removed on the human's choice.
C32_Witness ==
    /\ pc = "track_file"
    /\ created > 0
    /\ \E i \in DOMAIN files : i < idx /\ files[i] \notin Paths(dir)

\* ------------------------------------------------------------------ the cached listings and their TTL

\* const CACHE_TTL = 5 * 60 * 1000, in milliseconds.
CACHE_TTL ==
    5 * 60 * 1000

\* How many milliseconds pass, at most, while a call runs.
MaxTicks ==
    2

\* tt.googleNotes.getAllNotesAndUntrackedGoogleDocs: the listing with the
\* documents that belong to no note.
getAllNotesAndUntrackedGoogleDocs(r) ==
    [notes |-> getAllNotesMetadata(r), googleDocs |-> <<[id |-> "g"]>>]

\* The two cached functions, with the options of the second.
TtlCallees ==
    {[fn |-> "getNotes", ignoreTimeout |-> FALSE, ignoreCache |-> FALSE]}
       \cup {[fn |-> "getNotesAndUntrackedGoogleDocs", ignoreTimeout |-> t, ignoreCache |-> c] :
                t \in BOOLEAN, c \in BOOLEAN}

\* What a cache file of the callee holds besides its timestamp.
TtlData(c) ==
    IF c.fn = "getNotes" THEN CacheLists
    ELSE {[notes |-> l, googleDocs |-> <<>>] : l \in CacheLists}

\* A cache file parsed to an object.
TtlObject(hasTimestamp, timestamp, data) ==
    [kind |-> "object", hasTimestamp |-> hasTimestamp, timestamp |-> timestamp,
     data |-> data]

\* The ages of the cache files the calls find, around the TTL; -1 is a
\* timestamp ahead of the clock.
TtlAges ==
    {0 - 1, 0, CACHE_TTL - 1, CACHE_TTL, CACHE_TTL + 1}

TtlFiles(c, t) ==
    {[kind |-> k] : k \in {"missing", "garbage"}}
       \cup {TtlObject(TRUE, t - a, d) : a \in TtlAges, d \in TtlData(c)}
       \cup {TtlObject(FALSE, 0, d) : d \in TtlData(c)}

\* One of the two functions is about to be called.
InitTtl ==
    /\ dir = <<>>
    /\ head = <<>>
    /\ remote \in InitRemotes
    /\ created = 0
    /\ connected = TRUE
    /\ pc = "ttl_call"
    /\ ret = "ttl_call"
    /\ files = <<>>
    /\ idx = 0
    /\ remoteIds = {}
    /\ localIdToPath = EmptyMap
    /\ creatableNote = NullNote
    /\ note = NullNote
    /\ notesToDownload = <<>>
    /\ remoteNotes = <<>>
    /\ conflicts = <<>>
    /\ cIdx = 0
    /\ edits = 0
    /\ pausedSinceFetch = FALSE
    /\ now = CACHE_TTL + 1
    /\ callee \in TtlCallees
    /\ cacheFs \in {c \in {MkCache(d, w, f) : d \in {"exists", "creatable", "uncreatable"},
                                               w \in BOOLEAN,
                                               f \in TtlFiles(callee, CACHE_TTL + 1)} :
                       c.dir # "exists" => c.file.kind = "missing"}
    /\ getNotesResult = NotReturned
    /\ fileContent = <<>>
    /\ decoded = NotDecoded
    /\ service = Null
    /\ builds = 0
    /\ callers = NoCallers
    /\ run = "first"

\* Time passes while the call waits for the disk or the remote store.
TtlTick ==
    /\ pc \in {"ttl_call", "ttl_read", "ttl_write"}
    /\ now < CACHE_TTL + 1 + MaxTicks
    /\ now' = now + 1
    /\ UNCHANGED <<stores, connected, pc, ret, trackLocals, notesToDownload,
                   conflictLocals, edits, cacheVars, codecVars, callee, serviceVars, run>>

\* await ensureCacheDir()
TtlEnsureCacheDir ==
    /\ pc = "ttl_call"
    /\ IF cacheFs.dir = "uncreatable"
       THEN pc' = "threw" /\ UNCHANGED cacheFs
       ELSE pc' = "ttl_read" /\ cacheFs' = [cacheFs EXCEPT !.dir = "exists"]
    /\ UNCHANGED <<stores, connected, ret, trackLocals, notesToDownload,
                   conflictLocals, edits, getNotesResult, codecVars, ttlVars, serviceVars, run>>

\* (C33 mutant: a cache one millisecond older than the TTL still counts.)
AgeWithinTtlLoose(age) ==
    age <= CACHE_TTL + 1

\* Date.now() - cache.timestamp <= CACHE_TTL
AgeWithinTtl(age) ==
    age <= CACHE_TTL

\* The cache file is looked at, is there and parses, and is within the TTL
\* (for a timestamp that is no number the comparison is false) or the
\* timeout is ignored.
UsesCache(c, file, t) ==
    /\ ~c.ignoreCache
    /\ file.kind = "object"
    /\ \/ c.ignoreTimeout
       \/ file.hasTimestamp /\ AgeWithinTtl(t - file.timestamp)

\* return cache.notes, or {notes: cache.notes, googleDocs: cache.googleDocs}.
TtlCacheHit ==
    /\ pc = "ttl_read"
    /\ UsesCache(callee, cacheFs.file, now)
    /\ getNotesResult' = [returned |-> TRUE, notes |-> cacheFs.file.data]
    /\ pc' = "ttl_returned"
    /\ UNCHANGED <<stores, connected, ret, trackLocals, notesToDownload,
                   conflictLocals, edits, cacheFs, codecVars, ttlVars, serviceVars, run>>

\* The listing of the callee from the remote store.
TtlFetch(c, r) ==
    IF c.fn = "getNotes" THEN getAllNotesMetadata(r)
    ELSE getAllNotesAndUntrackedGoogleDocs(r)

\* The cache is not used: the remote store is called.
TtlCacheMiss ==
    /\ pc = "ttl_read"
    /\ ~UsesCache(callee, cacheFs.file, now)
    /\ remoteNotes' = TtlFetch(callee, remote)
    /\ pc' = "ttl_write"
    /\ UNCHANGED <<stores, connected, ret, trackLocals, notesToDownload, conflicts,
                   cIdx, pausedSinceFetch, edits, cacheVars, codecVars, ttlVars,
                   serviceVars, run>>

\* writeFile of {timestamp: Date.now(), ...}, its failure caught; return.
TtlCacheWrite ==
    /\ pc = "ttl_write"
    /\ cacheFs' = IF cacheFs.writable
                  THEN [cacheFs EXCEPT !.file = TtlObject(TRUE, now, remoteNotes)]
                  ELSE cacheFs
    /\ getNotesResult' = [returned |-> TRUE, notes |-> remoteNotes]
    /\ pc' = "ttl_returned"
    /\ UNCHANGED <<stores, connected, ret, trackLocals, notesToDownload,
                   conflictLocals, edits, codecVars, ttlVars, serviceVars, run>>

NextTtl ==
    \/ TtlTick
    \/ TtlEnsureCacheDir
    \/ TtlCacheHit
    \/ TtlCacheMiss
    \/ TtlCacheWrite

SpecTtl ==
    InitTtl /\ [][NextTtl]_vars

\* C33: a call returns the cached data without a call of the remote store
\* only when the cache was not to be ignored and its timestamp is at most
\* 5 * 60 * 1000 ms behind the clock at that moment, or ignoreTimeout is set
\* (getNotes has neither option); with ignoreCache the remote store is always
\* called; what is fetched is the listing of the store, it is what the call
\* returns, and the cache file written (when the write succeeds) holds it with
\* the clock's time of the write.
C33_TtlBound ==
    /\ [][(pc = "ttl_read" /\ pc' = "ttl_returned")
             => (/\ ~callee.ignoreCache
                 /\ cacheFs.file.kind = "object"
                 /\ \/ callee.fn # "getNotes" /\ callee.ignoreTimeout
                    \/ /\ cacheFs.file.hasTimestamp
                       /\ now - cacheFs.file.timestamp <= 5 * 60 * 1000
                 /\ getNotesResult'.notes = cacheFs.file.data
                 /\ UNCHANGED <<cacheFs, remoteNotes>>)]_vars
    /\ [][(pc = "ttl_read" /\ pc' # pc /\ callee.ignoreCache) => pc' = "ttl_write"]_vars
    /\ [][pc' = "ttl_write" /\ pc # pc'
             => remoteNotes' = (IF callee.fn = "getNotes" THEN getAllNotesMetadata(remote)
                                ELSE getAllNotesAndUntrackedGoogleDocs(remote))]_vars
    /\ [][(pc = "ttl_write" /\ pc' # pc)
             => (/\ pc' = "ttl_returned"
                 /\ getNotesResult'.notes = remoteNotes
                 /\ cacheFs.writable
                       => (/\ cacheFs'.file.kind = "object"
                           /\ cacheFs'.file.timestamp = now
                           /\ cacheFs'.file.data = remoteNotes))]_vars

\* C33 witness: getNotes has returned the cached listing of a cache exactly
\* CACHE_TTL old, which is not the listing of the store.
C33_Witness ==
    /\ pc = "ttl_returned"
    /\ callee.fn = "getNotes"
    /\ cacheFs.file.kind = "object"
    /\ now - cacheFs.file.timestamp = CACHE_TTL
    /\ getNotesResult.notes = cacheFs.file.data
    /\ getNotesResult.notes # getAllNotesMetadata(remote)

\* ------------------------------------------------------------------ syncNotes run again

\* syncNotes is run again, in a new process, after a run that reached the
\* end or that the human ended at a prompt: the stores are as that run left
\* them, the locals are new.
Rerun ==
    /\ run = "first"
    /\ pc \in {"done", "exit0"}
    /\ run' = IF pc = "done" THEN "after_done" ELSE "after_exit"
    /\ pc' = "git_check"
    /\ ret' = "track_start"
    /\ connected' = TRUE
    /\ files' = <<>>
    /\ idx' = 0
    /\ remoteIds' = {}
    /\ localIdToPath' = EmptyMap
    /\ creatableNote' = NullNote
    /\ note' = NullNote
    /\ notesToDownload' = <<>>
    /\ remoteNotes' = <<>>
    /\ conflicts' = <<>>
    /\ cIdx' = 0
    /\ pausedSinceFetch' = FALSE
    /\ UNCHANGED <<stores, edits, cacheVars, codecVars, ttlVars, serviceVars>>

\* The runs in which the human answers every prompt with yes, 'commit',
\* 'create' or a delete of one duplicate, or ends the run at a prompt; nobody
\* edits a file or a record, and no call fails.
NextRerun ==
    \/ GitCheck
    \/ GitCommit
    \/ GitRecheck
    \/ GitExit
    \/ TrackStart
    \/ TrackFile
    \/ TrackDone
    \/ TrackDeclineCreate
    \/ TrackCreate
    \/ TrackCheckRemote
    \/ TrackRecreate
    \/ TrackMissingExit
    \/ TrackCheckDup
    \/ TrackDupDeleteOther
    \/ TrackDupDeleteThis
    \/ TrackDupExit
    \/ DownloadStart
    \/ DownloadConfirm
    \/ ConflictSurface
    \/ ReviewCheck
    \/ ReviewLazygit
    \/ ReviewRecheck
    \/ ReviewExit
    \/ ReviewRecompute
    \/ PushConfirm
    \/ Disconnect
    \/ Rerun

SpecRerun ==
    Init /\ [][NextRerun]_vars

\* The records the runs have created that hold what a creatable note holds.
CreatedFor(creatable) ==
    {i \in DOMAIN remote :
        /\ \E n \in 1..created : remote[i].id = NewId(n)
        /\ remote[i].title = creatable.title
        /\ remote[i].content = creatable.content}

\* C34: a run that follows a run which reached the end with every prompt
\* answered affirmatively calls neither createNote nor updateNote and shows
\* no create, recreate, download or push prompt; a run that follows a run
\* ended at a prompt creates no record for a file for which a record was
\* created before.
C34_RerunConverges ==
    /\ [](run = "after_done"
             => pc \notin {"track_confirm_create", "track_missing_prompt",
                           "download_confirm", "push_prompt"})
    /\ [][run = "after_done" => UNCHANGED <<remote, created>>]_vars
    /\ [][(run = "after_exit" /\ TrackCreate) => CreatedFor(creatableNote) = {}]_vars

\* ------------------------------------------------------------------ the tracking pass, file by file

\* C35: a file whose creation was confirmed is not reported, in the same
\* pass, as having an id that is missing on the server: the prompt
\* create/delete/exit is never shown for the note createNote just returned
\* (so createNote is called once for the file).
C35_CreatedNotReportedMissing ==
    ~(pc = "track_missing_prompt" /\ creatableNote # NullNote /\ note.id = NewId(created))

\* C36: when ensureAllFilesAreTracked has returned, every local file that
\* resolves to an id has that id in the remote store, and when handleConflict
\* lists the remote notes every local note has its remote note: findConflicts
\* never ends the process with 'Note not found on server'.
C36_NoFatalExitInConflicts ==
    /\ pc = "download_start" => LocalIds(dir) \subseteq RemoteIds(remote)
    /\ pc = "conflict_start" => Unpaired(dir, remote) = {}

\* C37: at every point of ensureAllFilesAreTracked each path recorded in
\* localIdToPath is the path of a file that is on disk.
C37_RecordedPathsExist ==
    \A id \in DOMAIN localIdToPath : Exists(dir, localIdToPath[id])

\* ------------------------------------------------------------------ content and staging

\* C38: when findConflicts compares the local notes with the listing, a pair
\* has "content" in its conflictType exactly if the body of the local file
\* (the lines after its frontmatter block) is not the remote content; the same
\* holds for the conflicts the push loop works on, so that after a push
\* "content" is gone.
C38_ContentStrippedOnce ==
    /\ pc = "conflict_start"
          => \A i \in DOMAIN PairedNotes(dir, remote) :
                LET p == PairedNotes(dir, remote)[i]
                IN  ("content" \in Range(p.conflictType))
                       <=> (FileAt(dir, p.local.path).rest # p.remote.content)
    /\ pc = "done"
          => \A i \in DOMAIN PairedNotes(dir, remote) :
                LET p == PairedNotes(dir, remote)[i]
                IN  FileAt(dir, p.local.path).rest = p.remote.content
                       => "content" \notin Range(p.conflictType)

\* C39: right after the step that saves the remote version over every
\* conflicting local file, findConflicts over the same listing finds no
\* conflict, and every file written over resolves to the id of its remote
\* note.
C39_StagingLeavesNoConflict ==
    [][(pc = "conflict_start" /\ pc' = "review_check")
          => (/\ findConflicts(dir', remoteNotes') = <<>>
              /\ \A i \in DOMAIN conflicts' :
                    IdAt(dir', conflicts'[i].local.path) = conflicts'[i].remote.id)]_vars

\* ------------------------------------------------------------------ getTT

\* How many calls of getTT the process makes.
MaxCallers ==
    3

\* The instance the n-th call of TylersThings.buildAndConnect resolves to.
Instance(n) ==
    [isNull |-> FALSE, built |-> n]

\* A call of getTT: not started ("idle"), waiting for the buildAndConnect it
\* started ("awaiting", with the number of that build), returned with an
\* instance, or rejected.
Caller(at, build, result) ==
    [at |-> at, build |-> build, result |-> result]

\* The process has started, service is null and no call has been made.
InitService ==
    /\ dir = <<>>
    /\ head = <<>>
    /\ remote = <<>>
    /\ created = 0
    /\ connected = FALSE
    /\ pc = "service"
    /\ ret = "service"
    /\ files = <<>>
    /\ idx = 0
    /\ remoteIds = {}
    /\ localIdToPath = EmptyMap
    /\ creatableNote = NullNote
    /\ note = NullNote
    /\ notesToDownload = <<>>
    /\ remoteNotes = <<>>
    /\ conflicts = <<>>
    /\ cIdx = 0
    /\ edits = 0
    /\ pausedSinceFetch = FALSE
    /\ cacheFs = NoCache
    /\ getNotesResult = NotReturned
    /\ fileContent = <<>>
    /\ decoded = NotDecoded
    /\ now = 0
    /\ callee = NoCallee
    /\ service = Null
    /\ builds = 0
    /\ callers = [c \in 1..MaxCallers |-> Caller("idle", 0, Null)]
    /\ run = "first"

\* What the steps of getTT leave alone.
serviceFrame ==
    <<stores, pc, ret, trackLocals, notesToDownload, conflictLocals, edits,
      cacheVars, codecVars, ttlVars, run>>

\* A call of getTT up to its first await: if (!service) starts
\* buildAndConnect and waits, else the call returns service.
GetTTCall(c) ==
    /\ callers[c].at = "idle"
    /\ IF service.isNull
       THEN /\ builds' = builds + 1
            /\ callers' = [callers EXCEPT ![c] = Caller("awaiting", builds + 1, Null)]
       ELSE /\ callers' = [callers EXCEPT ![c] = Caller("returned", 0, service)]
            /\ UNCHANGED builds
    /\ UNCHANGED <<service, connected>>
    /\ UNCHANGED serviceFrame

\* The buildAndConnect a call waits for resolves: service = the instance;
\* return service.
BuildResolves(c) ==
    /\ callers[c].at = "awaiting"
    /\ service' = Instance(callers[c].build)
    /\ connected' = TRUE
    /\ callers' = [callers EXCEPT ![c] = Caller("returned", callers[c].build,
                                                Instance(callers[c].build))]
    /\ UNCHANGED builds
    /\ UNCHANGED serviceFrame

\* The buildAndConnect a call waits for rejects: the call rejects, service
\* is left as it is.
BuildRejects(c) ==
    /\ callers[c].at = "awaiting"
    /\ callers' = [callers EXCEPT ![c] = Caller("rejected", callers[c].build, Null)]
    /\ UNCHANGED <<service, builds, connected>>
    /\ UNCHANGED serviceFrame

NextService ==
    \/ \E c \in 1..MaxCallers : GetTTCall(c)
    \/ \E c \in 1..MaxCallers : BuildResolves(c)
    \/ \E c \in 1..MaxCallers : BuildRejects(c)

SpecService ==
    InitService /\ [][NextService]_vars

\* The calls of getTT that have returned.
Returned ==
    {c \in DOMAIN callers : callers[c].at = "returned"}

\* C40: in one process at most one buildAndConnect resolves to an instance in
\* use: no second build is started while or after one succeeds, and all calls
\* that have returned hold the same instance.
C40_MemoizedConnection ==
    /\ \A c, d \in Returned : callers[c].result = callers[d].result
    /\ \A c, d \in DOMAIN callers :
          (callers[c].at \in {"awaiting", "returned"}
             /\ callers[d].at \in {"awaiting", "returned"}
             /\ callers[c].build # 0 /\ callers[d].build # 0)
            => callers[c].build = callers[d].build

====
